---------------------------- MODULE Spec2Model ----------------------------
(***************************************************************************)
(* A model of the HealthAssistant backend (app.py and src/):               *)
(*   - the WebSocket session loop chat_socket with its keyword router,     *)
(*     slot prefetch, the two conversation buffers and the transcript      *)
(*     logger                                   (specifications Spec and   *)
(*     SpecConc),                                                          *)
(*   - the transcript format and the history regex that parses it          *)
(*                                              (specification SpecRT),    *)
(*   - the slot booking endpoint                (specification SpecBook).  *)
(* Text is modelled as a sequence of one-character strings, so that        *)
(* lower-casing, substring tests, formatting and regex parsing are         *)
(* computed, not assumed.                                                  *)
(***************************************************************************)
EXTENDS Integers, Sequences, FiniteSets, TLC

(***************************************************************************)
(* Bounds of the model.                                                    *)
(***************************************************************************)
\* inbound messages one session receives
MaxMsgs == 2
\* tool calls the external agent makes in one invocation
MaxToolCalls == 1
\* inbound messages the first of two concurrent sessions receives
MaxConcMsgs == 1
\* lab reports analysed in one run
MaxLab == 1
\* concurrent POST /api/book-slot requests
MaxRequests == 2
\* words of an inbound message given to the router
MaxWords == 2
\* medical turns a session had before the message under study
MaxTurns == 2
\* length of a text written to the transcript in SpecRT
MaxTextLen == 3
\* records written in SpecRT
MaxRecords == 2
\* CHAT_BUFFER comes from config.py (from config import *), which is not
\* among the sources: the model is checked for this value of it.
CHAT_BUFFER == 2


(***************************************************************************)
(* Text.                                                                   *)
(***************************************************************************)
Upper == <<"A", "B", "C", "D", "E", "F", "G", "H", "I", "J", "K", "L", "M", "N", "O", "P", "Q", "R", "S", "T", "U", "V", "W", "X", "Y", "Z">>
LowerAZ == <<"a", "b", "c", "d", "e", "f", "g", "h", "i", "j", "k", "l", "m", "n", "o", "p", "q", "r", "s", "t", "u", "v", "w", "x", "y", "z">>
Digits == {"0", "1", "2", "3", "4", "5", "6", "7", "8", "9"}

\* str.lower() on one character
LowerChar(c) ==
  IF \E i \in 1..Len(Upper) : Upper[i] = c
  THEN LowerAZ[CHOOSE i \in 1..Len(Upper) : Upper[i] = c]
  ELSE c

\* str.lower()
Lower(s) == [i \in 1..Len(s) |-> LowerChar(s[i])]

\* the slice s[from-1:to] of Python (1-based, inclusive; empty when to < from)
Slice(s, from, to) == [i \in 1..(to - from + 1) |-> s[from + i - 1]]

\* k occurs in s at position p (1-based)
OccursAt(k, s, p) ==
  /\ p >= 1
  /\ p + Len(k) - 1 <= Len(s)
  /\ \A i \in 1..Len(k) : s[p + i - 1] = k[i]

\* the Python test (k in s) on strings
IsSubstr(k, s) == \E p \in 1..(Len(s) + 1) : OccursAt(k, s, p)

IsPrefix(a, b) == Len(a) <= Len(b) /\ \A i \in 1..Len(a) : a[i] = b[i]

\* the characters str.strip() removes
Whitespace == {" ", "\n", "\r", "\t"}

\* str.strip()
Strip(s) ==
  IF \A i \in 1..Len(s) : s[i] \in Whitespace
  THEN <<>>
  ELSE LET first == CHOOSE i \in 1..Len(s) :
                      s[i] \notin Whitespace /\ \A j \in 1..(i - 1) : s[j] \in Whitespace
           last  == CHOOSE i \in 1..Len(s) :
                      s[i] \notin Whitespace /\ \A j \in (i + 1)..Len(s) : s[j] \in Whitespace
       IN  Slice(s, first, last)

\* ", ".join(names) and friends: the texts of seq joined by sep
RECURSIVE Join(_, _)
Join(seq, sep) ==
  IF seq = <<>> THEN <<>>
  ELSE IF Len(seq) = 1 THEN seq[1]
  ELSE seq[1] \o sep \o Join(Tail(seq), sep)

Last(s) == s[Len(s)]

(***************************************************************************)
(* Router keywords (app.py).                                               *)
(***************************************************************************)
SQL_AGENT_KEYWORDS ==
  << <<"b", "o", "o", "k">>,
     <<"b", "o", "o", "k", "i", "n", "g">>,
     <<"r", "e", "s", "e", "r", "v", "e">>,
     <<"r", "e", "s", "e", "r", "v", "a", "t", "i", "o", "n">>,
     <<"r", "e", "s", "e", "r", "v", "a", "t", "i", "o", "n", "s">>,
     <<"c", "a", "n", "c", "e", "l">>,
     <<"c", "a", "n", "c", "e", "l", "l", "a", "t", "i", "o", "n">>,
     <<"d", "e", "l", "e", "t", "e">>,
     <<"r", "e", "m", "o", "v", "e">>,
     <<"s", "l", "o", "t">>,
     <<"s", "l", "o", "t", "s">>,
     <<"a", "v", "a", "i", "l", "a", "b", "l", "e">>,
     <<"a", "v", "a", "i", "l", "a", "b", "i", "l", "i", "t", "y">>,
     <<"m", "y", " ", "a", "p", "p", "o", "i", "n", "t", "m", "e", "n", "t", "s">>,
     <<"m", "y", " ", "b", "o", "o", "k", "i", "n", "g", "s">>,
     <<"m", "y", " ", "r", "e", "s", "e", "r", "v", "a", "t", "i", "o", "n", "s">>,
     <<"a", "p", "p", "o", "i", "n", "t", "m", "e", "n", "t">>,
     <<"a", "p", "p", "o", "i", "n", "t", "m", "e", "n", "t", "s">>,
     <<"d", "a", "t", "a", "b", "a", "s", "e">>,
     <<"d", "b">>,
     <<"s", "l", "o", "t", "_", "i", "d">>,
     <<"s", "l", "o", "t", " ", "i", "d">> >>

SUMMARY_AGENT_KEYWORDS ==
  << <<"s", "u", "m", "m", "a", "r", "y">>,
     <<"s", "u", "m", "m", "a", "r", "i", "z", "e">>,
     <<"s", "u", "m", "m", "a", "r", "i", "s", "e">>,
     <<"r", "e", "c", "a", "p">>,
     <<"r", "e", "c", "a", "p", "i", "t", "u", "l", "a", "t", "e">>,
     <<"c", "o", "n", "s", "u", "l", "t", "a", "t", "i", "o", "n", " ", "s", "u", "m", "m", "a", "r", "y">>,
     <<"c", "o", "n", "s", "u", "l", "t", "a", "t", "i", "o", "n", " ", "r", "e", "p", "o", "r", "t">>,
     <<"w", "h", "a", "t", " ", "d", "i", "d", " ", "w", "e", " ", "d", "i", "s", "c", "u", "s", "s">>,
     <<"w", "h", "a", "t", " ", "w", "e", " ", "d", "i", "s", "c", "u", "s", "s", "e", "d">>,
     <<"g", "i", "v", "e", " ", "m", "e", " ", "a", " ", "s", "u", "m", "m", "a", "r", "y">>,
     <<"s", "h", "o", "w", " ", "s", "u", "m", "m", "a", "r", "y">> >>

\* the inline list of chat_socket: ["slot", "available", "show", "see"]
AVAILABILITY_KEYWORDS ==
  << <<"s", "l", "o", "t">>,
     <<"a", "v", "a", "i", "l", "a", "b", "l", "e">>,
     <<"s", "h", "o", "w">>,
     <<"s", "e", "e">> >>

\* any(keyword in msg_lower for keyword in keywords)
AnyKeywordIn(keywords, message) ==
  \E i \in 1..Len(keywords) : IsSubstr(keywords[i], Lower(message))

should_use_sql_agent(message) == AnyKeywordIn(SQL_AGENT_KEYWORDS, message)

should_use_summary_agent(message) == AnyKeywordIn(SUMMARY_AGENT_KEYWORDS, message)

has_availability_keyword(message) == AnyKeywordIn(AVAILABILITY_KEYWORDS, message)

\* the branch of the if/elif/else of chat_socket a message takes
\* a router that tests the sql keywords first
RouteSqlFirst(message) ==
  IF should_use_sql_agent(message) THEN "SqlAgent"
  ELSE IF should_use_summary_agent(message) THEN "Summary"
  ELSE "MedicalQa"

\* a router without its default branch
RouteNoDefault(message) ==
  IF should_use_summary_agent(message) THEN "Summary"
  ELSE IF should_use_sql_agent(message) THEN "SqlAgent"
  ELSE "None"

Route(message) ==
  IF should_use_summary_agent(message) THEN "Summary"
  ELSE IF should_use_sql_agent(message) THEN "SqlAgent"
  ELSE "MedicalQa"

(***************************************************************************)
(* The store: the doctors and appointments tables (init_db.py), cut to two *)
(* doctors and three slots.                                                *)
(***************************************************************************)
Ascii == <<" ", "!", "dquote", "#", "$", "%", "&", "'", "(", ")", "*", "+", ",", "-", ".", "/", "0", "1", "2", "3", "4", "5", "6", "7", "8", "9", ":", ";", "<", "=", ">", "?", "@", "A", "B", "C", "D", "E", "F", "G", "H", "I", "J", "K", "L", "M", "N", "O", "P", "Q", "R", "S", "T", "U", "V", "W", "X", "Y", "Z", "[", "backslash", "]", "^", "_", "backtick", "a", "b", "c", "d", "e", "f", "g", "h", "i", "j", "k", "l", "m", "n", "o", "p", "q", "r", "s", "t", "u", "v", "w", "x", "y", "z", "{", "|", "}", "~">>

\* the code point order of the printable ASCII characters (control characters
\* first; the double quote, the backslash and the backtick are named, not written)
Ord(c) == IF \E i \in 1..Len(Ascii) : Ascii[i] = c
          THEN CHOOSE i \in 1..Len(Ascii) : Ascii[i] = c
          ELSE 0

\* a < b as SQLite compares TEXT (BINARY collation)
RECURSIVE TextLess(_, _)
TextLess(a, b) ==
  IF b = <<>> THEN FALSE
  ELSE IF a = <<>> THEN TRUE
  ELSE IF Ord(a[1]) # Ord(b[1]) THEN Ord(a[1]) < Ord(b[1])
  ELSE TextLess(Tail(a), Tail(b))

\* str(n) for the slot ids of the model
Str(n) == <<Ascii[17 + n]>>

NULL == [null |-> TRUE, v |-> <<>>]
Val(t) == [null |-> FALSE, v |-> t]

DrFontana == <<"D", "r", ".", " ", "F", "o", "n", "t", "a", "n", "a">>
DrRicci == <<"D", "r", ".", " ", "R", "i", "c", "c", "i">>
Neurology == <<"N", "e", "u", "r", "o", "l", "o", "g", "y">>
Pneumology == <<"P", "n", "e", "u", "m", "o", "l", "o", "g", "y">>
Rossi == <<"R", "o", "s", "s", "i">>
Headaches == <<"h", "e", "a", "d", "a", "c", "h", "e", "s">>
T1 == <<"0", "3", "-", "1", "1", "-", "2", "0", "2", "6", " ", "0", "9", ":", "0", "0", ":", "0", "0">>
T2 == <<"0", "3", "-", "1", "1", "-", "2", "0", "2", "6", " ", "1", "1", ":", "0", "0", ":", "0", "0">>
T3 == <<"0", "4", "-", "1", "1", "-", "2", "0", "2", "6", " ", "0", "9", ":", "0", "0", ":", "0", "0">>

\* the rows of table doctors, in rowid order
doctors ==
  << [name |-> DrFontana, specialization |-> Neurology, user_id |-> 3],
     [name |-> DrRicci, specialization |-> Pneumology, user_id |-> 4] >>

SlotIds == 0..2

\* the rows of table appointments after init_database: slot 2 is booked
InitAppointments ==
  [id \in SlotIds |->
     CASE id = 0 -> [doctor |-> DrFontana, time_slot |-> T1, patient |-> NULL,
                     patient_problem |-> NULL]
       [] id = 1 -> [doctor |-> DrRicci, time_slot |-> T2, patient |-> NULL,
                     patient_problem |-> NULL]
       [] OTHER  -> [doctor |-> DrRicci, time_slot |-> T3, patient |-> Val(Rossi),
                     patient_problem |-> Val(Headaches)]]

\* SELECT name FROM doctors
get_all_doctor_names == [i \in 1..Len(doctors) |-> doctors[i].name]

\* the specialization the JOIN doctors d ON a.doctor = d.name gives a slot
SpecializationOf(doctor) ==
  doctors[CHOOSE i \in 1..Len(doctors) : doctors[i].name = doctor].specialization

\* a row (a.id, a.doctor, a.time_slot, d.specialization) of the slot queries
SlotRow(apps, id) ==
  [id |-> id, doctor |-> apps[id].doctor, time_slot |-> apps[id].time_slot,
   specialization |-> SpecializationOf(apps[id].doctor)]

\* ORDER BY a.time_slot
ByTime(r1, r2) == TextLess(r1.time_slot, r2.time_slot)

\* ORDER BY d.specialization, a.time_slot
BySpecThenTime(r1, r2) ==
  \/ TextLess(r1.specialization, r2.specialization)
  \/ (r1.specialization = r2.specialization /\ TextLess(r1.time_slot, r2.time_slot))

RowLess(order, r1, r2) ==
  IF order = "time_slot" THEN ByTime(r1, r2) ELSE BySpecThenTime(r1, r2)

\* the rows with the given ids in the given order (ties by rowid)
RECURSIVE OrderedRows(_, _, _)
OrderedRows(apps, ids, order) ==
  IF ids = {} THEN <<>>
  ELSE LET first == CHOOSE i \in ids :
                      \A j \in ids \ {i} :
                        \/ RowLess(order, SlotRow(apps, i), SlotRow(apps, j))
                        \/ (~RowLess(order, SlotRow(apps, j), SlotRow(apps, i)) /\ i < j)
       IN  <<SlotRow(apps, first)>> \o OrderedRows(apps, ids \ {first}, order)

\* a query by doctors without its condition a.patient IS NULL
SlotsOfDoctorsEvenBooked(apps, doctor_names) ==
  IF doctor_names = <<>> THEN <<>>
  ELSE OrderedRows(apps,
         {id \in DOMAIN apps :
            \E k \in 1..Len(doctor_names) :
              Lower(apps[id].doctor) = Lower(doctor_names[k])},
         "time_slot")

\* WHERE a.patient IS NULL AND (LOWER(a.doctor) = LOWER(?) OR ...) ORDER BY a.time_slot
get_slots_by_doctors(apps, doctor_names) ==
  IF doctor_names = <<>> THEN <<>>
  ELSE OrderedRows(apps,
         {id \in DOMAIN apps :
            /\ apps[id].patient.null
            /\ \E i \in 1..Len(doctors) : doctors[i].name = apps[id].doctor
            /\ \E k \in 1..Len(doctor_names) :
                 Lower(apps[id].doctor) = Lower(doctor_names[k])},
         "time_slot")

\* a query of all slots without its condition a.patient IS NULL
AllSlotsEvenBooked(apps) ==
  OrderedRows(apps, DOMAIN apps, "specialization, time_slot")

\* get_slots_by_specialization(None):
\* WHERE a.patient IS NULL ORDER BY d.specialization, a.time_slot
get_slots_by_specialization(apps) ==
  OrderedRows(apps,
    {id \in DOMAIN apps :
       /\ apps[id].patient.null
       /\ \E i \in 1..Len(doctors) : doctors[i].name = apps[id].doctor},
    "specialization, time_slot")

PrefetchPrefix == <<"[", "P", "R", "E", "-", "F", "E", "T", "C", "H", "E", "D", " ", "S", "L", "O", "T", "S", " ", "D", "A", "T", "A", " ", "-", " ", "U", "S", "E", " ", "T", "H", "I", "S", " ", "E", "X", "A", "C", "T", "L", "Y", ",", " ", "D", "O", " ", "N", "O", "T", " ", "Q", "U", "E", "R", "Y", " ", "A", "G", "A", "I", "N", "]", ":", "\n">>
UserSays == <<"\n", "\n", "U", "s", "e", "r", " ", "s", "a", "y", "s", ":", " ">>
DoctorsBlockHdr == <<"\n", "\n", "[", "S", "Y", "S", "T", "E", "M", " ", "-", " ", "D", "O", "C", "T", "O", "R", "S", " ", "D", "A", "T", "A", "B", "A", "S", "E", "]", ":", "\n">>
KbBlockHdr == <<"[", "S", "Y", "S", "T", "E", "M", " ", "-", " ", "M", "E", "D", "I", "C", "A", "L", " ", "K", "N", "O", "W", "L", "E", "D", "G", "E", " ", "B", "A", "S", "E", "]", ":", "\n">>
Instructions == <<"I", "N", "S", "T", "R", "U", "C", "T", "I", "O", "N", "S", ":", " ", "B", "a", "s", "e", "d", " ", "o", "n", " ", "t", "h", "e", " ", "u", "s", "e", "r", "'", "s", " ", "s", "y", "m", "p", "t", "o", "m", "s", ",", " ", "c", "h", "o", "o", "s", "e", " ", "t", "h", "e", " ", "m", "o", "s", "t", " ", "a", "p", "p", "r", "o", "p", "r", "i", "a", "t", "e", " ", "d", "o", "c", "t", "o", "r", " ", "f", "r", "o", "m", " ", "t", "h", "e", " ", "l", "i", "s", "t", " ", "a", "b", "o", "v", "e", " ", "a", "n", "d", " ", "g", "i", "v", "e", " ", "h", "i", "m", " ", "a", " ", "h", "i", "n", "t", " ", "b", "a", "s", "e", " ", "o", "n", " ", "t", "h", "e", " ", "s", "y", "m", "p", "t", "o", "m", "s", " ", "a", "n", "d", " ", "m", "e", "d", "i", "c", "a", "l", " ", "k", "n", "o", "w", "l", "e", "d", "g", "e", " ", "b", "a", "s", "e", ".">>

\* the string a buffer entry holds as its content
ContentText(content) ==
  CASE content.kind = "prefetched" ->
         PrefetchPrefix \o content.slots_info \o UserSays \o content.text
    [] content.kind = "enhanced" ->
         content.text \o DoctorsBlockHdr \o content.doctors_list \o <<"\n", "\n">>
           \o (IF content.faiss_context # <<>>
               THEN KbBlockHdr \o content.faiss_context \o <<"\n", "\n">>
               ELSE <<>>)
           \o Instructions
    [] OTHER -> content.text

\* an entry of a conversation buffer: a dict the loop appended (obj = FALSE)
\* or a message object of the list the agent returned (obj = TRUE)
Entry(role, content) == [obj |-> FALSE, role |-> role, content |-> content]

\* an extraction that searches every entry of the buffer
ExtractFromAnyEntry(history) ==
  SelectSeq(get_all_doctor_names,
            LAMBDA d : \E i \in 1..Len(history) :
                         IsSubstr(Lower(d), Lower(ContentText(history[i].content))))

\* the doctor names found in the last assistant entry, in roster order
RECURSIVE extract_mentioned_doctors_from_history(_)
extract_mentioned_doctors_from_history(history) ==
  IF history = <<>> THEN <<>>
  ELSE LET entry == history[Len(history)]
       IN  IF ~entry.obj /\ entry.role = "assistant"
           THEN SelectSeq(get_all_doctor_names,
                          LAMBDA d : IsSubstr(Lower(d), Lower(ContentText(entry.content))))
           ELSE extract_mentioned_doctors_from_history(
                  SubSeq(history, 1, Len(history) - 1))

HdrFor == <<"A", "V", "A", "I", "L", "A", "B", "L", "E", " ", "S", "L", "O", "T", "S", " ", "F", "O", "R", " ">>
HdrNoSlotsFor == <<"N", "o", " ", "s", "l", "o", "t", "s", " ", "a", "v", "a", "i", "l", "a", "b", "l", "e", " ", "f", "o", "r", " ">>
HdrHereAll == <<".", " ", "H", "e", "r", "e", " ", "a", "r", "e", " ", "A", "L", "L", " ", "a", "v", "a", "i", "l", "a", "b", "l", "e", " ", "s", "l", "o", "t", "s", ":", "\n">>
HdrAll == <<"A", "L", "L", " ", "A", "V", "A", "I", "L", "A", "B", "L", "E", " ", "S", "L", "O", "T", "S", ":", "\n">>
NoSlotsAtAll == <<"N", "o", " ", "a", "p", "p", "o", "i", "n", "t", "m", "e", "n", "t", " ", "s", "l", "o", "t", "s", " ", "a", "v", "a", "i", "l", "a", "b", "l", "e", " ", "a", "t", " ", "t", "h", "e", " ", "m", "o", "m", "e", "n", "t", ".">>
SlotIdPfx == <<"-", " ", "S", "l", "o", "t", " ", "I", "D", " ">>

\* f"- Slot ID {slot_id}: {doctor} ({spec}) - {time_slot}\n"
SlotLine(row) ==
  SlotIdPfx \o Str(row.id) \o <<":", " ">> \o row.doctor \o <<" ", "(">>
    \o row.specialization \o <<")", " ", "-", " ">> \o row.time_slot \o <<"\n">>

RECURSIVE SlotLines(_)
SlotLines(rows) ==
  IF rows = <<>> THEN <<>> ELSE SlotLine(rows[1]) \o SlotLines(Tail(rows))

\* slots_info as chat_socket builds it from the general buffer and the store
SlotsInfo(history, apps) ==
  LET mentioned_doctors == extract_mentioned_doctors_from_history(history)
      doctors_str == Join(mentioned_doctors, <<",", " ">>)
      slots == get_slots_by_doctors(apps, mentioned_doctors)
      all_slots == get_slots_by_specialization(apps)
  IN  IF mentioned_doctors # <<>>
      THEN IF slots # <<>>
           THEN HdrFor \o doctors_str \o <<":", "\n">> \o SlotLines(slots)
           ELSE IF all_slots # <<>>
                THEN HdrNoSlotsFor \o doctors_str \o HdrHereAll \o SlotLines(all_slots)
                ELSE NoSlotsAtAll
      ELSE IF all_slots # <<>>
           THEN HdrAll \o SlotLines(all_slots)
           ELSE NoSlotsAtAll

\* message_for_agent: the fixed directive block, slots_info, "User says: " and
\* the message; the fixed text is the record's shape
MessageForAgent(slots_info, message) ==
  [kind |-> "prefetched", text |-> message, slots_info |-> slots_info,
   doctors_list |-> <<>>, faiss_context |-> <<>>]

NoDoctors == <<"N", "O", " ", "D", "O", "C", "T", "O", "R", "S", " ", "A", "V", "A", "I", "L", "A", "B", "L", "E", " ", "i", "n", " ", "t", "h", "e", " ", "s", "y", "s", "t", "e", "m", ".">>
DoctorsHdr == <<"A", "V", "A", "I", "L", "A", "B", "L", "E", " ", "D", "O", "C", "T", "O", "R", "S", " ", "I", "N", " ", "O", "U", "R", " ", "S", "Y", "S", "T", "E", "M", ":">>

\* the specializations of the roster in sorted order, each once
RECURSIVE SortedTexts(_)
SortedTexts(set) ==
  IF set = {} THEN <<>>
  ELSE LET first == CHOOSE t \in set : \A u \in set \ {t} : TextLess(t, u)
       IN  <<first>> \o SortedTexts(set \ {first})

\* the names of one specialization ORDER BY specialization, name
DoctorsOf(spec) ==
  SortedTexts({doctors[i].name : i \in {j \in 1..Len(doctors) : doctors[j].specialization = spec}})

RECURSIVE DoctorLines(_)
DoctorLines(specs) ==
  IF specs = <<>> THEN <<>>
  ELSE <<"\n", "-", " ">> \o specs[1] \o <<":", " ">>
         \o Join(DoctorsOf(specs[1]), <<",", " ">>) \o DoctorLines(Tail(specs))

\* the roster block of the medical prompt
get_all_doctors_list ==
  IF doctors = <<>> THEN NoDoctors
  ELSE DoctorsHdr
         \o DoctorLines(SortedTexts({doctors[i].specialization : i \in 1..Len(doctors)}))

NoRelevant == <<"N", "o", " ", "r", "e", "l", "e", "v", "a", "n", "t">>
NoRelevantInfo == <<"N", "o", " ", "r", "e", "l", "e", "v", "a", "n", "t", " ", "m", "e", "d", "i", "c", "a", "l", " ", "i", "n", "f", "o", "r", "m", "a", "t", "i", "o", "n", " ", "f", "o", "u", "n", "d", ".">>
KbText == <<"r", "e", "s", "t">>

\* what search_medical_info can return: the joined documents, or its sentinel
RetrievedTexts == {KbText, NoRelevantInfo}

\* enhanced_msg: the message, the roster block, the knowledge-base block when
\* faiss_context is set and does not contain 'No relevant', and the fixed
\* instruction suffix; the fixed text is the record's shape
EnhancedMsg(message, doctors_list, faiss_context) ==
  [kind |-> "enhanced", text |-> message, slots_info |-> <<>>,
   doctors_list |-> doctors_list,
   faiss_context |-> IF faiss_context # <<>> /\ ~IsSubstr(NoRelevant, faiss_context)
                     THEN faiss_context ELSE <<>>]

\* the content of an entry that is plain text (an agent's or the bot's)
Plain(text) ==
  [kind |-> "plain", text |-> text, slots_info |-> <<>>, doctors_list |-> <<>>,
   faiss_context |-> <<>>]

(***************************************************************************)
(* The transcript logger and the history regex (app.py).                   *)
(***************************************************************************)
\* USER_NAME comes from config.py, like CHAT_BUFFER
USER_NAME == <<"G", "u", "e", "s", "t">>
NameDoe == <<"D", "o", "e">>

\* datetime.now().strftime("%d-%m-%Y %H:%M:%S") at one moment
Timestamp == <<"0", "2", "-", "1", "1", "-", "2", "0", "2", "6", " ", "0", "9", ":", "3", "0", ":", "0", "0">>
RoleUser == <<"u", "s", "e", "r">>
RoleBot == <<"b", "o", "t">>

\* the file of a user: chat_history/<user_name.lower()>.txt
ChatFile(user_name) == Lower(user_name)

NoFile == [exists |-> FALSE, content |-> <<>>]

\* f"[{timestamp}] {role}: {message}\n\n"
TranscriptLine(role, message) ==
  <<"[">> \o Timestamp \o <<"]", " ">> \o role \o <<":", " ">> \o message \o <<"\n", "\n">>

\* open(filepath, 'a') and one write: the file is created when absent
\* a logger that writes nothing
WriteNothing(fs, role, message, user_name) == fs

save_chat_message(fs, role, message, user_name) ==
  [fs EXCEPT ![ChatFile(user_name)] =
     [exists |-> TRUE, content |-> @.content \o TranscriptLine(role, message)]]

\* f.read() of a file opened in text mode: "\r\n" and "\r" are read as "\n"
ReadText(content) ==
  LET kept == SelectSeq([i \in 1..Len(content) |-> <<i, content[i]>>],
                        LAMBDA p : ~(/\ p[2] = "\n"
                                     /\ p[1] > 1
                                     /\ content[p[1] - 1] = "\r"))
  IN  [k \in 1..Len(kept) |-> IF kept[k][2] = "\r" THEN "\n" ELSE kept[k][2]]

\* \d{2}-\d{2}-\d{4} \d{2}:\d{2}:\d{2}   ("d" stands for \d)
TimestampShape == <<"d", "d", "-", "d", "d", "-", "d", "d", "d", "d", " ", "d", "d", ":", "d", "d", ":", "d", "d">>

TimestampAt(c, p) ==
  /\ p + Len(TimestampShape) - 1 <= Len(c)
  /\ \A i \in 1..Len(TimestampShape) :
       IF TimestampShape[i] = "d" THEN c[p + i - 1] \in Digits
       ELSE c[p + i - 1] = TimestampShape[i]

\* the alternatives of (user|bot), in the order the regex tries them
RegexRoles == <<RoleUser, RoleBot>>

\* the role with which \[(...)\] (user|bot):<space> matches at p, or <<>>
HeaderRoleAt(c, p) ==
  LET q == p + 1 + Len(TimestampShape)
      fits(r) == /\ OccursAt(<<"[">>, c, p)
                 /\ TimestampAt(c, p + 1)
                 /\ OccursAt(<<"]", " ">>, c, q)
                 /\ OccursAt(r \o <<":", " ">>, c, q + 2)
  IN  IF fits(RegexRoles[1]) THEN RegexRoles[1]
      ELSE IF fits(RegexRoles[2]) THEN RegexRoles[2]
      ELSE <<>>

\* a lookahead that stops the text at any line break: (?=\n|\Z)
LookaheadAnyBreak(c, e) == e = Len(c) \/ OccursAt(<<"\n">>, c, e + 1)

\* (?=\n\[|\Z) holds after position e
LookaheadAfter(c, e) == e = Len(c) \/ OccursAt(<<"\n", "[">>, c, e + 1)

\* re.findall(pattern, content, re.DOTALL) from position pos on: the
\* non-overlapping matches, leftmost first, (.+?) as short as it can be
\* the pattern matches at p: the header is there and (.+?) has a character
MatchAt(c, p) ==
  LET role == HeaderRoleAt(c, p)
  IN  role # <<>> /\ p + 1 + Len(TimestampShape) + 2 + Len(role) + 2 <= Len(c)

RECURSIVE FindAll(_, _)
FindAll(c, pos) ==
  IF \A p \in pos..Len(c) : ~MatchAt(c, p) THEN <<>>
  ELSE LET at    == CHOOSE p \in pos..Len(c) :
                      MatchAt(c, p) /\ \A q \in pos..(p - 1) : ~MatchAt(c, q)
           role  == HeaderRoleAt(c, at)
           start == at + 1 + Len(TimestampShape) + 2 + Len(role) + 2
           e     == CHOOSE k \in start..Len(c) :
                      LookaheadAfter(c, k)
                      /\ \A j \in start..(k - 1) : ~LookaheadAfter(c, j)
       IN  <<[timestamp |-> Slice(c, at + 1, at + Len(TimestampShape)),
              role |-> role,
              text |-> Slice(c, start, e)]>> \o FindAll(c, e + 1)

\* the messages api_chat_history (and api_doctor_patient_detail) returns
ParseHistory(file) ==
  IF ~file.exists THEN <<>>
  ELSE LET matches == FindAll(ReadText(file.content), 1)
       IN  [i \in 1..Len(matches) |->
              [timestamp |-> matches[i].timestamp,
               role |-> IF matches[i].role = RoleUser THEN RoleUser ELSE RoleBot,
               text |-> Strip(matches[i].text)]]

(***************************************************************************)
(* The state.                                                              *)
(***************************************************************************)
Sessions == {1, 2}

\* the names a connection's username parameter can carry
Users == {NameDoe}

FileKeys == {ChatFile(u) : u \in Users \cup {USER_NAME}}

MsgRecap == <<"r", "e", "c", "a", "p">>
MsgDb == <<"d", "b">>
MsgSlot == <<"s", "l", "o", "t">>
MsgHi == <<"h", "i">>
MsgBlank == <<" ">>

\* the inbound messages of the model: one per path of the router, and a blank one
Messages == {MsgRecap, MsgDb, MsgSlot, MsgHi, MsgBlank}

RespOk == <<"o", "k">>
RespRicci == <<"D", "R", ".", " ", "R", "I", "C", "C", "I">>

\* the texts an agent can answer with
Responses == {RespOk, RespRicci}

\* the greeting line (its first words)
Greeting == <<"B", "o", "t", ":", " ", "H", "e", "l", "l", "o", "!">>
BotErrorPrefix == <<"B", "o", "t", " ", "E", "r", "r", "o", "r", ":", " ">>
NoHistoryText == <<"N", "o", " ", "c", "o", "n", "s", "u", "l", "t", "a", "t", "i", "o", "n", " ", "h", "i", "s", "t", "o", "r", "y", " ", "a", "v", "a", "i", "l", "a", "b", "l", "e", " ", "t", "o", " ", "s", "u", "m", "m", "a", "r", "i", "z", "e", ".">>
ErrSummaryPrefix == <<"E", "r", "r", "o", "r", " ", "g", "e", "n", "e", "r", "a", "t", "i", "n", "g", " ", "s", "u", "m", "m", "a", "r", "y", ":", " ">>
LabPrefix == <<"L", "a", "b", " ", "R", "e", "p", "o", "r", "t", " ", "A", "n", "a", "l", "y", "s", "i", "s", ":", "\n">>

\* str(e) of the exceptions of the model, each cut to a word
ErrStore == <<"d", "a", "t", "a", "b", "a", "s", "e">>
ErrRetriever == <<"r", "e", "t", "r", "i", "e", "v", "e", "r">>
ErrAgent == <<"o", "l", "l", "a", "m", "a">>
ErrIO == <<"d", "i", "s", "k">>
ErrClosed == <<"c", "l", "o", "s", "e", "d">>
\* UnboundLocalError: the local variable named was never assigned
ErrUnboundResponse == <<"r", "e", "s", "p", "o", "n", "s", "e">>
ErrUnboundSqlAgent == <<"s", "q", "l", "_", "a", "g", "e", "n", "t">>
ErrUnboundAgent == <<"a", "g", "e", "n", "t">>

Unbound == [bound |-> FALSE, text |-> <<>>, for |-> 0]

VARIABLES
  pc,                   \* where each chat_socket handler stands
  username_param,       \* query_params.get('username', [None])[0]
  current_ws_user_name,
  sql_agent,            \* whether the local variable sql_agent is bound
  agent,                \* whether the local variable agent is bound
  chat_history,         \* the general buffer of each session
  sql_chat_history,     \* the sql buffer of each session
  msg,                  \* the message being processed
  response,             \* the local variable response: its text, and the number
                        \* of the inbound message it was produced for
  exc,                  \* str(e) of the exception the except clause holds
  ws_open,              \* whether the client side of the socket is still there
  active_connections,   \* the keys of the registry
  outbox,               \* what each session has sent to its client
  nrecv,                \* how many messages each session has received
  invoked,              \* the agents invoked for the message being processed
  msg_limit,            \* how many messages a session receives in this run
  files,                \* the transcript files
  appointments,         \* table appointments
  doc_retriever,        \* whether initialize_document_agent gave a retriever
  nlab,                 \* lab reports analysed
  booking,              \* the POST /api/book-slot requests in flight
  written,              \* SpecRT: the (role, text) pairs written so far
  users,                \* table users, in id order (ids from 1)
  session,              \* the Flask session of the browser
  documents,            \* table documents, in id order (ids from 1)
  uploads,              \* the paths that exist in the upload folder
  http                  \* the other HTTP requests and calls, in flight or answered

sessionVars == <<pc, username_param, current_ws_user_name, sql_agent, agent,
                 chat_history, sql_chat_history, msg, response, exc, ws_open,
                 active_connections, outbox, nrecv, invoked>>

httpVars == <<users, session, documents, uploads, http>>

vars == <<sessionVars, msg_limit, files, appointments, doc_retriever, nlab,
          booking, written, httpVars>>

(***************************************************************************)
(* Tables users and documents, the upload folder and the Flask session.    *)
(***************************************************************************)
MarioRossi == <<"M", "a", "r", "i", "o", " ", "R", "o", "s", "s", "i">>
JohnDoe == <<"J", "o", "h", "n", " ", "D", "o", "e">>
SystemAdmin == <<"S", "y", "s", "t", "e", "m", " ", "A", "d", "m", "i", "n">>
PwPatient == <<"P", "a", "s", "s", "w", "o", "r", "d", "1", "2", "3", "!">>
PwDoctor == <<"D", "o", "c", "t", "o", "r", "P", "a", "s", "s", "1", "2", "3", "!">>
PwAdmin == <<"A", "d", "m", "i", "n", "P", "a", "s", "s", "1", "2", "3", "!">>

\* hash_password with the salt of the row: equal passwords, equal hashes
hash_password(password) == <<"#">> \o password

\* verify_password: the hash of the given password against the stored one
verify_password(password, stored_hash) == hash_password(password) = stored_hash

UserRow(username, email, password, role, full_name) ==
  [username |-> username, email |-> email,
   password_hash |-> hash_password(password), role |-> role,
   full_name |-> full_name]

\* the rows of table users after init_database, in id order; a row's id is
\* its position (AUTOINCREMENT from 1)
InitUsers ==
  << UserRow(<<"r", "o", "s", "s", "i">>, <<"m", "a", "r", "i", "o", ".", "r", "o", "s", "s", "i", "@", "e", "m", "a", "i", "l", ".", "c", "o", "m">>, PwPatient, "patient", MarioRossi),
     UserRow(<<"d", "o", "e">>, <<"j", "o", "h", "n", ".", "d", "o", "e", "@", "e", "m", "a", "i", "l", ".", "c", "o", "m">>, PwPatient, "patient", JohnDoe),
     UserRow(<<"d", "r", ".", "f", "o", "n", "t", "a", "n", "a">>, <<"f", "o", "n", "t", "a", "n", "a", "@", "m", "e", "d", "a", "s", "s", "i", "s", "t", ".", "c", "o", "m">>, PwDoctor, "doctor", DrFontana),
     UserRow(<<"d", "r", ".", "r", "i", "c", "c", "i">>, <<"r", "i", "c", "c", "i", "@", "m", "e", "d", "a", "s", "s", "i", "s", "t", ".", "c", "o", "m">>, PwDoctor, "doctor", DrRicci),
     UserRow(<<"a", "d", "m", "i", "n">>, <<"a", "d", "m", "i", "n", "@", "m", "e", "d", "a", "s", "s", "i", "s", "t", ".", "c", "o", "m">>, PwAdmin, "admin", SystemAdmin) >>

\* the session of a browser that has no cookie
NoSession == [has_user_id |-> FALSE, user_id |-> 0]

HttpInit ==
  /\ users = InitUsers
  /\ session = NoSession
  /\ documents = <<>>
  /\ uploads = {}
  /\ http = <<>>

(***************************************************************************)
(* The conversation buffers.                                               *)
(***************************************************************************)
\* a truncation that keeps the oldest entries
KeepOldest(h) == IF Len(h) > CHAT_BUFFER THEN SubSeq(h, 1, CHAT_BUFFER) ELSE h

\* an append that is not followed by the truncation
KeepAll(h) == h

\* if len(h) > CHAT_BUFFER: h[:] = h[-CHAT_BUFFER:]
Truncate(h) ==
  IF Len(h) > CHAT_BUFFER THEN SubSeq(h, Len(h) - CHAT_BUFFER + 1, Len(h)) ELSE h

\* h.append({"role": "user", "content": content}) and the truncation after it
AppendUser(h, content) == Truncate(Append(h, Entry("user", content)))

\* the agent's graph turns every input entry into a message object
ToMessage(e) ==
  [obj |-> TRUE,
   role |-> IF e.obj THEN e.role ELSE IF e.role = "user" THEN "human" ELSE "ai",
   content |-> e.content]

\* what one invocation adds to the conversation: calls tool calls, each an ai
\* message and the tool's message, then the final ai message with text r
AgentAdds(calls, r) ==
  [i \in 1..(2 * calls + 1) |->
     IF i = 2 * calls + 1 THEN [obj |-> TRUE, role |-> "ai", content |-> Plain(r)]
     ELSE IF i % 2 = 1 THEN [obj |-> TRUE, role |-> "ai", content |-> Plain(<<>>)]
     ELSE [obj |-> TRUE, role |-> "tool", content |-> Plain(<<>>)]]

\* result['messages'] of agent.invoke({"messages": h})
AgentResult(h, calls, r) == [i \in 1..Len(h) |-> ToMessage(h[i])] \o AgentAdds(calls, r)

\* parse_results: (result['messages'], result['messages'][-1].content)
parse_results(messages) == <<messages, ContentText(Last(messages).content)>>

\* a loop that takes the returned list and appends no assistant entry
ReturnedListOnly(messages) == parse_results(messages)[1]

\* h, response = parse_results(result); h.append({"role": "assistant", ...})
AppendAssistant(messages) ==
  Append(parse_results(messages)[1],
         Entry("assistant", Plain(parse_results(messages)[2])))

(***************************************************************************)
(* chat_socket, one action per step of the handler.                        *)
(***************************************************************************)
Goto(s, label) == pc' = [pc EXCEPT ![s] = label]

\* an exception nothing catches: it leaves the loop
RaiseUncaught(s, e) == /\ exc' = [exc EXCEPT ![s] = e]
                       /\ pc' = [pc EXCEPT ![s] = "finally"]

\* an exception raised inside the inner try: except Exception as e
Raise(s, e) == /\ exc' = [exc EXCEPT ![s] = e]
               /\ Goto(s, "except")

\* an exception raised in the loop outside the inner try: only finally runs
Propagate(s) == Goto(s, "finally")

\* lines 796-823: register the connection, read the username parameter and,
\* when there is one, initialise the two agents (an initialisation that
\* raises is caught and printed: the agent assigned after it stays unbound)
Connect(s) ==
  /\ pc[s] = "idle"
  /\ active_connections' = active_connections \cup {s}
  /\ \E p \in {NULL} \cup {Val(u) : u \in Users}, sql_ok, llm_ok \in BOOLEAN :
       /\ username_param' = [username_param EXCEPT ![s] = p]
       /\ current_ws_user_name' =
            [current_ws_user_name EXCEPT ![s] = IF p.null THEN USER_NAME ELSE p.v]
       /\ sql_agent' = [sql_agent EXCEPT ![s] = ~p.null /\ sql_ok]
       /\ agent' = [agent EXCEPT ![s] = ~p.null /\ sql_ok /\ llm_ok]
  /\ Goto(s, "ensure")
  /\ UNCHANGED <<chat_history, sql_chat_history, msg, response, exc, ws_open,
                 outbox, nrecv, invoked, msg_limit, files, appointments,
                 doc_retriever, httpVars, nlab, booking, written>>

\* ensure_user_chat_history_exists, up to its test os.path.exists(filepath)
EnsureCheck(s) ==
  /\ pc[s] = "ensure"
  /\ \/ Goto(s, IF files[ChatFile(current_ws_user_name[s])].exists
                THEN "greet" ELSE "ensure_create")
     \/ Goto(s, "aborted")            \* os.makedirs raises
  /\ UNCHANGED <<username_param, current_ws_user_name, sql_agent, agent,
                 chat_history, sql_chat_history, msg, response, exc, ws_open,
                 active_connections, outbox, nrecv, invoked, msg_limit, files,
                 appointments, doc_retriever, httpVars, nlab, booking, written>>

\* open(filepath, 'w') and f.write(""): the file is created, or emptied
CreateEmpty(fs, user_name) ==
  [fs EXCEPT ![ChatFile(user_name)] = [exists |-> TRUE, content |-> <<>>]]

\* ensure_user_chat_history_exists, after the test found no file
EnsureCreate(s) ==
  /\ pc[s] = "ensure_create"
  /\ \/ /\ files' = CreateEmpty(files, current_ws_user_name[s])
        /\ Goto(s, "greet")
     \/ /\ Goto(s, "aborted")         \* open raises
        /\ UNCHANGED files
  /\ UNCHANGED <<username_param, current_ws_user_name, sql_agent, agent,
                 chat_history, sql_chat_history, msg, response, exc, ws_open,
                 active_connections, outbox, nrecv, invoked, msg_limit,
                 appointments, doc_retriever, httpVars, nlab, booking, written>>

Sent(text, n) == [text |-> text, for |-> n]

\* ws.send of the greeting, before the try: a closed socket ends the handler
Greet(s) ==
  /\ pc[s] = "greet"
  /\ \/ /\ outbox' = [outbox EXCEPT ![s] = Append(@, Sent(Greeting, 0))]
        /\ Goto(s, "receive")
        /\ UNCHANGED ws_open
     \/ /\ ws_open' = [ws_open EXCEPT ![s] = FALSE]
        /\ Goto(s, "aborted")
        /\ UNCHANGED outbox
  /\ UNCHANGED <<username_param, current_ws_user_name, sql_agent, agent,
                 chat_history, sql_chat_history, msg, response, exc,
                 active_connections, nrecv, invoked, msg_limit, files,
                 appointments, doc_retriever, httpVars, nlab, booking, written>>

\* msg = ws.receive(): a message, None, or the socket is closed
Receive(s) ==
  /\ pc[s] = "receive"
  /\ \/ /\ nrecv[s] < msg_limit[s]
        /\ \E m \in Messages : msg' = [msg EXCEPT ![s] = m]
        /\ nrecv' = [nrecv EXCEPT ![s] = @ + 1]
        /\ invoked' = [invoked EXCEPT ![s] = <<>>]
        /\ Goto(s, "save_user")
        /\ UNCHANGED ws_open
     \/ /\ Goto(s, "finally")         \* if msg is None: break
        /\ UNCHANGED <<msg, nrecv, invoked, ws_open>>
     \/ /\ ws_open' = [ws_open EXCEPT ![s] = FALSE]
        /\ Propagate(s)               \* ConnectionClosed
        /\ UNCHANGED <<msg, nrecv, invoked>>
  /\ UNCHANGED <<username_param, current_ws_user_name, sql_agent, agent,
                 chat_history, sql_chat_history, response, exc,
                 active_connections, outbox, msg_limit, files, appointments,
                 doc_retriever, httpVars, nlab, booking, written>>

\* line 837: save_chat_message("user", msg, current_ws_user_name)
SaveUser(s) ==
  /\ pc[s] = "save_user"
  /\ \/ /\ files' = save_chat_message(files, RoleUser, msg[s], current_ws_user_name[s])
        /\ Goto(s, "dispatch")
     \/ /\ Propagate(s)               \* the write raises
        /\ UNCHANGED files
  /\ UNCHANGED <<username_param, current_ws_user_name, sql_agent, agent,
                 chat_history, sql_chat_history, msg, response, exc, ws_open,
                 active_connections, outbox, nrecv, invoked, msg_limit,
                 appointments, doc_retriever, httpVars, nlab, booking, written>>

\* generate_consultation_summary: the fixed reply when the transcript is
\* blank, else the model's answer, or the error text when the model raises
SummaryReplies(fs, user_name) ==
  IF Strip(ReadText(fs[ChatFile(user_name)].content)) = <<>>
  THEN {NoHistoryText}
  ELSE Responses \cup {ErrSummaryPrefix \o ErrAgent}

\* lines 841-843: the Summary branch
DispatchSummary(s) ==
  /\ pc[s] = "dispatch"
  /\ Route(msg[s]) = "Summary"
  /\ invoked' = [invoked EXCEPT ![s] = Append(@, "summary")]
  /\ \E r \in SummaryReplies(files, current_ws_user_name[s]) :
       response' = [response EXCEPT ![s] = [bound |-> TRUE, text |-> r, for |-> nrecv[s]]]
  /\ Goto(s, "save_bot")
  /\ UNCHANGED <<username_param, current_ws_user_name, sql_agent, agent,
                 chat_history, sql_chat_history, msg, exc, ws_open,
                 active_connections, outbox, nrecv, msg_limit, files,
                 appointments, doc_retriever, httpVars, nlab, booking, written>>

\* a SqlAgent branch that also records the message in the general buffer
DispatchSqlIntoGeneral(s) ==
  /\ pc[s] = "dispatch"
  /\ Route(msg[s]) = "SqlAgent"
  /\ chat_history' = [chat_history EXCEPT ![s] = AppendUser(@, Plain(msg[s]))]
  /\ IF has_availability_keyword(msg[s])
     THEN /\ sql_chat_history' =
               [sql_chat_history EXCEPT ![s] =
                  AppendUser(@, MessageForAgent(
                                  SlotsInfo(chat_history[s], appointments), msg[s]))]
          /\ Goto(s, "invoke_sql")
     ELSE /\ Goto(s, "save_bot")
          /\ UNCHANGED sql_chat_history
  /\ UNCHANGED <<username_param, current_ws_user_name, sql_agent, agent,
                 msg, response, exc, ws_open, active_connections,
                 outbox, nrecv, invoked, msg_limit, files, appointments,
                 doc_retriever, httpVars, nlab, booking, written>>

\* lines 845-892: the SqlAgent branch up to the agent call. The append, the
\* truncation and the call stand inside the availability test
DispatchSql(s) ==
  /\ pc[s] = "dispatch"
  /\ Route(msg[s]) = "SqlAgent"
  /\ IF has_availability_keyword(msg[s])
     THEN \/ /\ sql_chat_history' =
                  [sql_chat_history EXCEPT ![s] =
                     AppendUser(@, MessageForAgent(
                                     SlotsInfo(chat_history[s], appointments), msg[s]))]
             /\ Goto(s, "invoke_sql")
             /\ UNCHANGED exc
          \/ /\ Raise(s, ErrStore)    \* a query of the prefetch raises
             /\ UNCHANGED sql_chat_history
     ELSE /\ Goto(s, "save_bot")
          /\ UNCHANGED <<sql_chat_history, exc>>
  /\ UNCHANGED <<username_param, current_ws_user_name, sql_agent, agent,
                 chat_history, msg, response, ws_open, active_connections,
                 outbox, nrecv, invoked, msg_limit, files, appointments,
                 doc_retriever, httpVars, nlab, booking, written>>

\* a retrieval that runs whether or not there is a retriever or a message
RetrievesAlways(s) == RetrievedTexts

\* faiss_context of lines 904-906: None (the empty text) without a retriever
\* or for a blank message
FaissContexts(s) ==
  IF doc_retriever /\ Strip(msg[s]) # <<>> THEN RetrievedTexts ELSE {<<>>}

\* a MedicalQa branch over one buffer that all connections share
DispatchMedicalShared(s) ==
  /\ pc[s] = "dispatch"
  /\ Route(msg[s]) = "MedicalQa"
  /\ \E faiss_context \in FaissContexts(s) :
       chat_history' =
         [t \in Sessions |->
            AppendUser(chat_history[t],
                       EnhancedMsg(msg[s], get_all_doctors_list, faiss_context))]
  /\ Goto(s, "invoke_llm")
  /\ UNCHANGED <<username_param, current_ws_user_name, sql_agent, agent,
                 sql_chat_history, msg, response, exc, ws_open,
                 active_connections, outbox, nrecv, invoked, msg_limit, files,
                 appointments, doc_retriever, httpVars, nlab, booking, written>>

\* lines 897-917: the MedicalQa branch up to the agent call
DispatchMedical(s) ==
  /\ pc[s] = "dispatch"
  /\ Route(msg[s]) = "MedicalQa"
  /\ \/ /\ \E faiss_context \in FaissContexts(s) :
             chat_history' =
               [chat_history EXCEPT ![s] =
                  AppendUser(@, EnhancedMsg(msg[s], get_all_doctors_list, faiss_context))]
        /\ Goto(s, "invoke_llm")
        /\ UNCHANGED exc
     \/ /\ Raise(s, ErrStore)         \* the roster query raises
        /\ UNCHANGED chat_history
     \/ /\ doc_retriever /\ Strip(msg[s]) # <<>>
        /\ Raise(s, ErrRetriever)     \* the retrieval call raises
        /\ UNCHANGED chat_history
  /\ UNCHANGED <<username_param, current_ws_user_name, sql_agent, agent,
                 sql_chat_history, msg, response, ws_open, active_connections,
                 outbox, nrecv, invoked, msg_limit, files, appointments,
                 doc_retriever, httpVars, nlab, booking, written>>

\* lines 894-896: sql_agent.invoke, parse_results, the assistant entry
InvokeSql(s) ==
  /\ pc[s] = "invoke_sql"
  /\ IF ~sql_agent[s]
     THEN /\ Raise(s, ErrUnboundSqlAgent)
          /\ UNCHANGED <<sql_chat_history, response, invoked>>
     ELSE /\ invoked' = [invoked EXCEPT ![s] = Append(@, "sql")]
          /\ \/ /\ \E calls \in 0..MaxToolCalls, r \in Responses :
                     /\ sql_chat_history' =
                          [sql_chat_history EXCEPT ![s] =
                             AppendAssistant(AgentResult(@, calls, r))]
                     /\ response' =
                          [response EXCEPT ![s] =
                             [bound |-> TRUE,
                              text |-> parse_results(
                                         AgentResult(sql_chat_history[s], calls, r))[2],
                              for |-> nrecv[s]]]
                /\ Goto(s, "save_bot")
                /\ UNCHANGED exc
             \/ /\ Raise(s, ErrAgent) \* the invocation raises
                /\ UNCHANGED <<sql_chat_history, response>>
  /\ UNCHANGED <<username_param, current_ws_user_name, sql_agent, agent,
                 chat_history, msg, ws_open, active_connections, outbox, nrecv,
                 msg_limit, files, appointments, doc_retriever, httpVars, nlab, booking,
                 written>>

\* lines 919-921: agent.invoke, parse_results, the assistant entry
InvokeLlm(s) ==
  /\ pc[s] = "invoke_llm"
  /\ IF ~agent[s]
     THEN /\ Raise(s, ErrUnboundAgent)
          /\ UNCHANGED <<chat_history, response, invoked>>
     ELSE /\ invoked' = [invoked EXCEPT ![s] = Append(@, "medical")]
          /\ \/ /\ \E calls \in 0..MaxToolCalls, r \in Responses :
                     /\ chat_history' =
                          [chat_history EXCEPT ![s] =
                             AppendAssistant(AgentResult(@, calls, r))]
                     /\ response' =
                          [response EXCEPT ![s] =
                             [bound |-> TRUE,
                              text |-> parse_results(
                                         AgentResult(chat_history[s], calls, r))[2],
                              for |-> nrecv[s]]]
                /\ Goto(s, "save_bot")
                /\ UNCHANGED exc
             \/ /\ Raise(s, ErrAgent) \* the invocation raises
                /\ UNCHANGED <<chat_history, response>>
  /\ UNCHANGED <<username_param, current_ws_user_name, sql_agent, agent,
                 sql_chat_history, msg, ws_open, active_connections, outbox,
                 nrecv, msg_limit, files, appointments, doc_retriever, httpVars, nlab,
                 booking, written>>

\* line 924: save_chat_message("bot", response, current_ws_user_name); reading
\* a response that was never assigned raises UnboundLocalError
SaveBot(s) ==
  /\ pc[s] = "save_bot"
  /\ IF ~response[s].bound
     THEN /\ Raise(s, ErrUnboundResponse)
          /\ UNCHANGED files
     ELSE \/ /\ files' = save_chat_message(files, RoleBot, response[s].text,
                                           current_ws_user_name[s])
             /\ Goto(s, "send")
             /\ UNCHANGED exc
          \/ /\ Raise(s, ErrIO)       \* the write raises
             /\ UNCHANGED files
  /\ UNCHANGED <<username_param, current_ws_user_name, sql_agent, agent,
                 chat_history, sql_chat_history, msg, response, ws_open,
                 active_connections, outbox, nrecv, invoked, msg_limit,
                 appointments, doc_retriever, httpVars, nlab, booking, written>>

\* line 925: ws.send(response), still inside the inner try
SendResponse(s) ==
  /\ pc[s] = "send"
  /\ \/ /\ outbox' = [outbox EXCEPT ![s] = Append(@, Sent(response[s].text, response[s].for))]
        /\ Goto(s, "receive")
        /\ UNCHANGED <<exc, ws_open>>
     \/ /\ ws_open' = [ws_open EXCEPT ![s] = FALSE]
        /\ Raise(s, ErrClosed)        \* ConnectionClosed
        /\ UNCHANGED outbox
  /\ UNCHANGED <<username_param, current_ws_user_name, sql_agent, agent,
                 chat_history, sql_chat_history, msg, response,
                 active_connections, nrecv, invoked, msg_limit, files,
                 appointments, doc_retriever, httpVars, nlab, booking, written>>

\* lines 927-928: ws.send(f"Bot Error: {str(e)}"); a send that raises here
\* leaves the loop
SendBotError(s) ==
  /\ pc[s] = "except"
  /\ \/ /\ ws_open[s]
        /\ outbox' = [outbox EXCEPT ![s] = Append(@, Sent(BotErrorPrefix \o exc[s], nrecv[s]))]
        /\ Goto(s, "receive")
        /\ UNCHANGED ws_open
     \/ /\ ws_open' = [ws_open EXCEPT ![s] = FALSE]
        /\ Propagate(s)
        /\ UNCHANGED outbox
  /\ UNCHANGED <<username_param, current_ws_user_name, sql_agent, agent,
                 chat_history, sql_chat_history, msg, response, exc,
                 active_connections, nrecv, invoked, msg_limit, files,
                 appointments, doc_retriever, httpVars, nlab, booking, written>>

\* lines 930-932: active_connections.pop(cid, None)
Finally(s) ==
  /\ pc[s] = "finally"
  /\ active_connections' = active_connections \ {s}
  /\ Goto(s, "closed")
  /\ UNCHANGED <<username_param, current_ws_user_name, sql_agent, agent,
                 chat_history, sql_chat_history, msg, response, exc, ws_open,
                 outbox, nrecv, invoked, msg_limit, files, appointments,
                 doc_retriever, httpVars, nlab, booking, written>>

\* POST /api/analyze-lab-report of an authenticated user, when it reaches
\* save_chat_message("bot", f"Lab Report Analysis:\n{analysis_result}", ...)
AnalyzeLabReport(u) ==
  /\ doc_retriever
  /\ nlab < MaxLab
  /\ nlab' = nlab + 1
  /\ files' = save_chat_message(files, RoleBot, LabPrefix \o RespOk, u)
  /\ UNCHANGED <<sessionVars, msg_limit, appointments, doc_retriever, httpVars, booking, written>>

SessionStep(s) ==
  \/ Connect(s) \/ EnsureCheck(s) \/ EnsureCreate(s) \/ Greet(s)
  \/ Receive(s) \/ SaveUser(s)
  \/ DispatchSummary(s) \/ DispatchSql(s) \/ DispatchMedical(s)
  \/ InvokeSql(s) \/ InvokeLlm(s)
  \/ SaveBot(s) \/ SendResponse(s) \/ SendBotError(s) \/ Finally(s)

\* the state chat_socket and the endpoints start from; live is the set of
\* connections that will be made, limit[s] the messages session s receives
InitWith(live, limit) ==
  /\ pc = [s \in Sessions |-> IF s \in live THEN "idle" ELSE "off"]
  /\ username_param = [s \in Sessions |-> NULL]
  /\ current_ws_user_name = [s \in Sessions |-> USER_NAME]
  /\ sql_agent = [s \in Sessions |-> FALSE]
  /\ agent = [s \in Sessions |-> FALSE]
  /\ chat_history = [s \in Sessions |-> <<>>]
  /\ sql_chat_history = [s \in Sessions |-> <<>>]
  /\ msg = [s \in Sessions |-> <<>>]
  /\ response = [s \in Sessions |-> Unbound]
  /\ exc = [s \in Sessions |-> <<>>]
  /\ ws_open = [s \in Sessions |-> TRUE]
  /\ active_connections = {}
  /\ outbox = [s \in Sessions |-> <<>>]
  /\ nrecv = [s \in Sessions |-> 0]
  /\ invoked = [s \in Sessions |-> <<>>]
  /\ msg_limit = limit
  \* line 80: the module creates the file of USER_NAME when it is loaded
  /\ files = [f \in FileKeys |->
                IF f = ChatFile(USER_NAME) THEN [exists |-> TRUE, content |-> <<>>]
                ELSE NoFile]
  /\ appointments = InitAppointments
  /\ doc_retriever \in BOOLEAN
  /\ nlab = 0
  /\ booking = <<>>
  /\ written = <<>>
  /\ HttpInit

\* one connection and its messages
Init == InitWith({1}, [s \in Sessions |-> MaxMsgs])

Next == \E s \in Sessions : SessionStep(s)

Spec == Init /\ [][Next]_vars

(***************************************************************************)
(* Properties of the session loop.                                         *)
(***************************************************************************)
IsSuffix(a, b) == Len(a) <= Len(b) /\ SubSeq(b, Len(b) - Len(a) + 1, Len(b)) = a

IsBotError(text) == IsPrefix(BotErrorPrefix, text)

\* the transcript of the session's user
Transcript(s) == files[ChatFile(current_ws_user_name[s])].content

\* the service the router's class of a message stands for
AgentFor(message) ==
  CASE Route(message) = "Summary"  -> "summary"
    [] Route(message) = "SqlAgent" -> "sql"
    [] OTHER                       -> "medical"

\* C1: when the loop has the reply of an inbound message ready to be logged,
\* exactly one service was invoked for that message, and it is the one the
\* router's class names (the sql agent for every SqlAgent message, with or
\* without an availability keyword).
C1_ExactlyOneInvocation ==
  \A s \in Sessions :
    pc[s] = "save_bot" => invoked[s] = <<AgentFor(msg[s])>>

\* C2: whenever the loop is back at receive it has sent exactly one message
\* per inbound message (after the greeting), and the i-th of them is the
\* reply made for the i-th inbound message or its Bot Error, never the reply
\* made for an earlier message.
C2_OneReplyForTheSameMessage ==
  \A s \in Sessions :
    pc[s] = "receive" =>
      /\ Len(outbox[s]) = nrecv[s] + 1
      /\ \A i \in 1..nrecv[s] : outbox[s][i + 1].for = i

C4_FallbackSessionHasAgents ==
  \A s \in Sessions :
    (pc[s] \notin {"off", "idle"} /\ username_param[s].null) =>
      /\ current_ws_user_name[s] = USER_NAME
      /\ sql_agent[s]
      /\ agent[s]

\* C5: a failure raised while a message is dispatched (prefetch, roster,
\* retrieval, agent call) never leaves the loop: the handler goes to its
\* except clause, and from there, unless the socket is closed, it sends
\* "Bot Error: " with the failure's text for that message and is back at
\* receive with the session's bindings as they were.
C5_DispatchFailureContained ==
  [][\A s \in Sessions :
       /\ pc[s] \in {"dispatch", "invoke_sql", "invoke_llm"} =>
            pc'[s] \in {pc[s], "invoke_sql", "invoke_llm", "save_bot", "except"}
       /\ (pc[s] = "except" /\ pc'[s] # "except" /\ ws_open'[s]) =>
            /\ pc'[s] = "receive"
            /\ outbox'[s] = Append(outbox[s], Sent(BotErrorPrefix \o exc[s], nrecv[s]))
            /\ s \in active_connections'
            /\ <<sql_agent'[s], agent'[s], current_ws_user_name'[s]>>
                 = <<sql_agent[s], agent[s], current_ws_user_name[s]>>]_vars

\* the agent call of the first message raised, the client got its Bot Error,
\* and the second message went through an agent and has its reply ready
C5_Witness ==
  \E s \in Sessions :
    /\ pc[s] = "send"
    /\ nrecv[s] = 2
    /\ outbox[s][2].text = BotErrorPrefix \o ErrAgent
    /\ invoked[s] # <<>>
    /\ response[s].for = 2

\* C6: the handler leaves its loop only from receive (a null message, a
\* closed connection) or with the socket closed; in particular a failed
\* transcript write does not end it.
C6_LeavesLoopOnlyOnNullOrClose ==
  [][\A s \in Sessions :
       (pc[s] # "finally" /\ pc'[s] = "finally") =>
          (pc[s] = "receive" \/ ~ws_open'[s])]_vars

InitConc == InitWith(Sessions, [s \in Sessions |-> IF s = 1 THEN MaxConcMsgs ELSE 0])

NextConc ==
  \/ \E s \in Sessions : SessionStep(s)
  \/ \E u \in Users : AnalyzeLabReport(u)

SpecConc == InitConc /\ [][NextConc]_vars

\* C8: no step of any session or endpoint removes, rewrites or reorders what
\* a transcript file holds: the content before a step is a prefix of the
\* content after it.
C8_TranscriptAppendOnly ==
  [][\A f \in FileKeys : IsPrefix(files[f].content, files'[f].content)]_vars

(***************************************************************************)
(* The transcript round trip: records written with save_chat_message, then *)
(* read back as api_chat_history does.                                     *)
(***************************************************************************)
\* the characters of the texts of the model: a letter, a blank, a line
\* break, a carriage return and the bracket that opens a record
TextChars == {"a", " ", "\n", "\r", "["}

Texts == UNION {[1..n -> TextChars] : n \in 0..MaxTextLen}

InitRT == InitWith({}, [s \in Sessions |-> 0])

\* one more save_chat_message(role, text, user_name) on the user's file
WriteRecord(role, text) ==
  /\ Len(written) < MaxRecords
  /\ files' = save_chat_message(files, role, text, NameDoe)
  /\ written' = Append(written, [role |-> role, text |-> text])
  /\ UNCHANGED <<sessionVars, msg_limit, appointments, doc_retriever, httpVars, nlab, booking>>

NextRT == \E role \in {RoleUser, RoleBot}, text \in Texts : WriteRecord(role, text)

SpecRT == InitRT /\ [][NextRT]_vars

\* what the endpoint returns is what was written: as many records, in the
\* same order, with the same roles and the same texts after trimming
RoundTrip ==
  LET parsed == ParseHistory(files[ChatFile(NameDoe)])
  IN  /\ Len(parsed) = Len(written)
      /\ \A i \in 1..Len(written) :
           /\ parsed[i].role = written[i].role
           /\ parsed[i].text = Strip(written[i].text)

\* a text whose trimmed form the pattern reads back: no carriage return, and
\* no line break after the first character that is directly followed by "["
ReadsBack(text) ==
  /\ \A i \in 1..Len(text) : text[i] # "\r"
  /\ \A i \in 2..(Len(text) - 1) : ~(text[i] = "\n" /\ text[i + 1] = "[")

\* C9 as stated: every sequence of written records is read back as written,
\* whatever the texts.
C9_RoundTripEveryText == written # <<>> => RoundTrip

\* C9 amended: a sequence of written records is read back as written when
\* every text is free of carriage returns and of a line break, after its
\* first character, that is directly followed by "[".
C9_RoundTripPlainTexts ==
  (written # <<>> /\ \A i \in 1..Len(written) : ReadsBack(written[i].text))
    => RoundTrip

\* two records with line breaks and brackets in their texts were written and
\* read back
C9_Witness ==
  /\ Len(written) = MaxRecords
  /\ written[1].text = <<"[", "\n", "a">>
  /\ written[2].text = <<"\n", "[", " ">>
  /\ written[1].role # written[2].role
  /\ RoundTrip

(***************************************************************************)
(* POST /api/book-slot/<slot_id>: each request runs on a thread of its own *)
(* with a connection of its own; the SELECT and the UPDATE are separate    *)
(* statements, and each is atomic in the store.                            *)
(***************************************************************************)
Patients == {NameDoe, Rossi}

\* an id no row of appointments has
MissingSlot == Cardinality(SlotIds)

InitBook == InitWith({}, [s \in Sessions |-> 0])

\* a request arrives: slot_id from the path, patient from the body (the sql
\* agent's book_appointment) or the authenticated user's name
PostBookSlot(slot_id, patient) ==
  /\ Len(booking) < MaxRequests
  /\ booking' = Append(booking, [slot_id |-> slot_id, patient |-> patient,
                                 at |-> "select", status |-> 0])
  /\ UNCHANGED <<sessionVars, msg_limit, files, appointments, doc_retriever, httpVars,
                 nlab, written>>

\* SELECT id, patient FROM appointments WHERE id = ?  and the two early returns
BookSelect(i) ==
  /\ booking[i].at = "select"
  /\ booking' =
       [booking EXCEPT ![i] =
          IF booking[i].slot_id \notin DOMAIN appointments
          THEN [@ EXCEPT !.at = "done", !.status = 404]
          ELSE IF ~appointments[booking[i].slot_id].patient.null
               THEN [@ EXCEPT !.at = "done", !.status = 400]
               ELSE [@ EXCEPT !.at = "update"]]
  /\ UNCHANGED <<sessionVars, msg_limit, files, appointments, doc_retriever, httpVars,
                 nlab, written>>

\* UPDATE appointments SET patient = ? WHERE id = ?, commit, the 200 reply
BookUpdate(i) ==
  /\ booking[i].at = "update"
  /\ appointments' =
       [appointments EXCEPT ![booking[i].slot_id].patient = Val(booking[i].patient)]
  /\ booking' = [booking EXCEPT ![i] = [@ EXCEPT !.at = "done", !.status = 200]]
  /\ UNCHANGED <<sessionVars, msg_limit, files, doc_retriever, httpVars, nlab, written>>

NextBook ==
  \/ \E slot_id \in SlotIds \cup {MissingSlot}, patient \in Patients :
       PostBookSlot(slot_id, patient)
  \/ \E i \in DOMAIN booking : BookSelect(i)
  \/ \E i \in DOMAIN booking : BookUpdate(i)

SpecBook == InitBook /\ [][NextBook]_vars

\* C10: of the requests for one slot at most one returns success, and the
\* patient a successful request stored is the patient the slot still holds
\* (no later booking overwrote it); a request that got 400 changed nothing.
C10_OneBookingPerSlot ==
  /\ \A i, j \in DOMAIN booking :
       (/\ booking[i].status = 200
        /\ booking[j].status = 200
        /\ booking[i].slot_id = booking[j].slot_id) => i = j
  /\ \A i \in DOMAIN booking :
       booking[i].status = 200 =>
         appointments[booking[i].slot_id].patient = Val(booking[i].patient)

(***************************************************************************)
(* One message in a session that is past its greeting: the state the loop  *)
(* is in when it has received the message, after earlier medical turns.    *)
(***************************************************************************)
RespBoth == <<"D", "r", ".", " ", "F", "o", "n", "t", "a", "n", "a", " ", "o", "r", " ", "d", "r", ".", " ", "r", "i", "c", "c", "i">>

\* how an earlier turn ended: the agent answered text, or its call raised
TurnOutcomes ==
  {[ok |-> TRUE, text |-> r] : r \in Responses \cup {RespBoth}}
    \cup {[ok |-> FALSE, text |-> ErrAgent]}

TurnSeqs == UNION {[1..n -> TurnOutcomes] : n \in 0..MaxTurns}

\* the general buffer after the user entry of a turn's message "hi"
RECURSIVE HistoryAfter(_, _)
TurnUserAppended(turns, retr) ==
  AppendUser(HistoryAfter(SubSeq(turns, 1, Len(turns) - 1), retr),
             EnhancedMsg(MsgHi, get_all_doctors_list, IF retr THEN KbText ELSE <<>>))

\* the general buffer after the given turns
HistoryAfter(turns, retr) ==
  IF turns = <<>> THEN <<>>
  ELSE IF Last(turns).ok
       THEN AppendAssistant(AgentResult(TurnUserAppended(turns, retr), 0, Last(turns).text))
       ELSE TurnUserAppended(turns, retr)

\* the transcript after the given turns: a Bot Error is not logged
RECURSIVE FileAfter(_)
FileAfter(turns) ==
  IF turns = <<>> THEN <<>>
  ELSE FileAfter(SubSeq(turns, 1, Len(turns) - 1))
         \o TranscriptLine(RoleUser, MsgHi)
         \o (IF Last(turns).ok THEN TranscriptLine(RoleBot, Last(turns).text) ELSE <<>>)

\* what was sent after the given turns
OutboxAfter(turns) ==
  <<Sent(Greeting, 0)>> \o
    [i \in 1..Len(turns) |->
       Sent(IF turns[i].ok THEN turns[i].text ELSE BotErrorPrefix \o turns[i].text, i)]

\* the local variable response after the given turns
ResponseAfter(turns) ==
  IF \A i \in 1..Len(turns) : ~turns[i].ok THEN Unbound
  ELSE LET k == CHOOSE i \in 1..Len(turns) :
                  turns[i].ok /\ \A j \in (i + 1)..Len(turns) : ~turns[j].ok
       IN  [bound |-> TRUE, text |-> turns[k].text, for |-> k]

\* the stores bookings can lead to: every slot open or booked
Stores ==
  {[id \in SlotIds |->
      [InitAppointments[id] EXCEPT !.patient = IF id \in booked THEN Val(Rossi) ELSE NULL]]
     : booked \in SUBSET SlotIds}

\* session 1 of user Doe has received a message of inbox after turns of
\* turnSeqs, with the store one of stores
InitReceived(inbox, turnSeqs, stores) ==
  /\ pc = [s \in Sessions |-> IF s = 1 THEN "save_user" ELSE "off"]
  /\ username_param = [s \in Sessions |-> IF s = 1 THEN Val(NameDoe) ELSE NULL]
  /\ current_ws_user_name = [s \in Sessions |-> IF s = 1 THEN NameDoe ELSE USER_NAME]
  /\ sql_agent = [s \in Sessions |-> s = 1]
  /\ agent = [s \in Sessions |-> s = 1]
  /\ doc_retriever \in BOOLEAN
  /\ \E turns \in turnSeqs :
       /\ chat_history = [s \in Sessions |-> IF s = 1 THEN HistoryAfter(turns, doc_retriever) ELSE <<>>]
       /\ response = [s \in Sessions |-> IF s = 1 THEN ResponseAfter(turns) ELSE Unbound]
       /\ outbox = [s \in Sessions |-> IF s = 1 THEN OutboxAfter(turns) ELSE <<>>]
       /\ nrecv = [s \in Sessions |-> IF s = 1 THEN Len(turns) + 1 ELSE 0]
       /\ msg_limit = [s \in Sessions |-> IF s = 1 THEN Len(turns) + 1 ELSE 0]
       /\ files = [f \in FileKeys |-> [exists |-> TRUE,
                     content |-> IF f = ChatFile(NameDoe) THEN FileAfter(turns) ELSE <<>>]]
  /\ sql_chat_history = [s \in Sessions |-> <<>>]
  /\ msg \in {[s \in Sessions |-> IF s = 1 THEN m ELSE <<>>] : m \in inbox}
  /\ exc = [s \in Sessions |-> <<>>]
  /\ ws_open = [s \in Sessions |-> TRUE]
  /\ active_connections = {1}
  /\ invoked = [s \in Sessions |-> <<>>]
  /\ appointments \in stores
  /\ nlab = 0
  /\ booking = <<>>
  /\ written = <<>>
  /\ HttpInit

\* the steps of the loop from a received message to the reply
ProcessStep(s) ==
  \/ SaveUser(s)
  \/ DispatchSummary(s) \/ DispatchSql(s) \/ DispatchMedical(s)
  \/ InvokeSql(s) \/ InvokeLlm(s)
  \/ SaveBot(s) \/ SendResponse(s) \/ SendBotError(s)

(***************************************************************************)
(* The router on messages made of keywords of both lists, availability     *)
(* words and other words, in either case.                                  *)
(***************************************************************************)
WordRecap == <<"r", "e", "c", "a", "p">>
WordSummary == <<"S", "u", "m", "m", "a", "r", "y">>
WordDb == <<"D", "b">>
WordBook == <<"B", "O", "O", "K">>
WordShow == <<"S", "h", "o", "w">>
RouterWords == {WordRecap, WordSummary, WordDb, WordBook, MsgSlot, WordShow, MsgHi}

\* the messages of at most MaxWords words, the empty message included
RouterInputs ==
  {Join(ws, <<" ">>) : ws \in UNION {[1..n -> RouterWords] : n \in 0..MaxWords}}

InitRoute == InitReceived(RouterInputs, {<<>>}, {InitAppointments})

NextRoute == \E s \in Sessions : ProcessStep(s)

SpecRoute == InitRoute /\ [][NextRoute]_vars

\* a keyword of the list occurs in the lower-cased message
ContainsKeyword(keywords, message) ==
  \E i \in 1..Len(keywords) : IsSubstr(keywords[i], Lower(message))

\* C11: a message whose lower-cased text contains a summary keyword is
\* dispatched on the Summary path, whatever sql keywords and availability
\* words it also contains: the dispatch step calls the summary service and
\* goes on to log the reply, without a prefetch or an agent call.
C11_SummaryPrecedence ==
  [][\A s \in Sessions :
       (/\ pc[s] = "dispatch"
        /\ pc'[s] # "dispatch"
        /\ ContainsKeyword(SUMMARY_AGENT_KEYWORDS, msg[s])) =>
          /\ pc'[s] = "save_bot"
          /\ invoked'[s] = <<"summary">>
          /\ response'[s].bound /\ response'[s].for = nrecv[s]]_vars

\* a message with a summary keyword, a sql keyword and an availability word
\* went down the Summary path
C11_Witness ==
  \E s \in Sessions :
    /\ ContainsKeyword(SUMMARY_AGENT_KEYWORDS, msg[s])
    /\ ContainsKeyword(SQL_AGENT_KEYWORDS, msg[s])
    /\ ContainsKeyword(AVAILABILITY_KEYWORDS, msg[s])
    /\ pc[s] = "save_bot"
    /\ invoked[s] = <<"summary">>

\* the classes of the router
RouterClasses == {"Summary", "SqlAgent", "MedicalQa"}

\* C12: the router is total and defaults to MedicalQa. Every received
\* message, the empty one included, has exactly one of the three classes,
\* and its dispatch step is a step of the path of that class, which fails
\* on no error of the routing itself; a message whose lower-cased text
\* contains no summary keyword and no sql keyword has class MedicalQa: its
\* dispatch step goes to the call of the general agent with the message
\* appended to the general buffer, or to the handler of an error of that
\* path, and neither calls the summary service nor touches the sql buffer.
C12_RouterTotalDefaultsToMedicalQa ==
  /\ [](\A s \in Sessions :
          pc[s] = "dispatch" =>
            Cardinality({c \in RouterClasses : Route(msg[s]) = c}) = 1)
  /\ [][\A s \in Sessions :
          (pc[s] = "dispatch" /\ pc'[s] # "dispatch") =>
            /\ pc'[s] = "except" => exc'[s] \in {ErrStore, ErrRetriever}
            /\ Route(msg[s]) = "Summary" =>
                 pc'[s] = "save_bot" /\ invoked'[s] = <<"summary">>
            /\ Route(msg[s]) = "SqlAgent" =>
                 /\ pc'[s] \in {"invoke_sql", "save_bot", "except"}
                 /\ invoked'[s] = invoked[s]
                 /\ chat_history'[s] = chat_history[s]
            /\ (\/ Route(msg[s]) = "MedicalQa"
                \/ (/\ ~ContainsKeyword(SUMMARY_AGENT_KEYWORDS, msg[s])
                    /\ ~ContainsKeyword(SQL_AGENT_KEYWORDS, msg[s]))) =>
                 /\ Route(msg[s]) = "MedicalQa"
                 /\ pc'[s] \in {"invoke_llm", "except"}
                 /\ pc'[s] = "invoke_llm" =>
                      /\ Len(chat_history'[s]) > 0
                      /\ Last(chat_history'[s]).content.kind = "enhanced"
                      /\ Last(chat_history'[s]).content.text = msg[s]
                 /\ invoked'[s] = invoked[s]
                 /\ sql_chat_history'[s] = sql_chat_history[s]]_vars

\* the empty message reached the call of the general agent
C12_Witness ==
  \E s \in Sessions :
    /\ msg[s] = <<>>
    /\ pc[s] = "invoke_llm"
    /\ Last(chat_history[s]).content.kind = "enhanced"

\* the labels of the steps that process a received message
ProcessingLabels ==
  {"save_user", "dispatch", "invoke_sql", "invoke_llm", "save_bot", "send", "except"}

\* the most recent assistant entry of a buffer, alone
LastAssistantOnly(history) ==
  LET idx == {i \in 1..Len(history) :
                ~history[i].obj /\ history[i].role = "assistant"}
  IN  IF idx = {} THEN <<>>
      ELSE <<history[CHOOSE i \in idx : \A j \in idx : j <= i]>>

\* C13: the two buffers are independent. No step that processes a message
\* routed to MedicalQa changes the sql buffer; no step that processes a
\* message routed to SqlAgent changes the general buffer, and the prefetch
\* of that path reads of the general buffer only its last assistant entry;
\* no step that processes a message routed to Summary changes either buffer,
\* and the summary reply is a function of the user name (and of the
\* transcript file that name selects) alone.
C13_BufferIndependence ==
  [][\A s \in Sessions :
       (pc[s] \in ProcessingLabels /\ pc'[s] # pc[s]) =>
         LET route == Route(msg[s])
         IN  /\ route = "MedicalQa" =>
                  sql_chat_history'[s] = sql_chat_history[s]
             /\ route = "SqlAgent" =>
                  /\ chat_history'[s] = chat_history[s]
                  /\ pc'[s] = "invoke_sql" /\ pc[s] = "dispatch" =>
                       Last(sql_chat_history'[s]).content =
                         MessageForAgent(
                           SlotsInfo(LastAssistantOnly(chat_history[s]), appointments),
                           msg[s])
             /\ route = "Summary" =>
                  /\ chat_history'[s] = chat_history[s]
                  /\ sql_chat_history'[s] = sql_chat_history[s]
                  /\ pc'[s] = "save_bot" /\ pc[s] = "dispatch" =>
                       response'[s].text \in
                         SummaryReplies(files, current_ws_user_name[s])]_vars

\* a message routed to SqlAgent was answered by the sql agent after a
\* MedicalQa turn had filled the general buffer
C13_Witness ==
  \E s \in Sessions :
    /\ Route(msg[s]) = "SqlAgent"
    /\ pc[s] = "save_bot"
    /\ invoked[s] = <<"sql">>
    /\ LastAssistantOnly(chat_history[s]) # <<>>
    /\ sql_chat_history[s] # <<>>

\* C14: session cleanup. Whenever the handler of a connection has ended, by
\* a null receive, a disconnect or an exception raised at any step after
\* the connection was registered (the transcript-file creation and the
\* greeting send included), active_connections holds no entry for the
\* connection, and nothing more is sent on it.
C14_SessionCleanup ==
  /\ [](\A s \in Sessions :
          pc[s] \in {"closed", "aborted"} => s \notin active_connections)
  /\ [][\A s \in Sessions :
          pc[s] \in {"closed", "aborted"} => outbox'[s] = outbox[s]]_vars

(***************************************************************************)
(* The prefetch: a message received after up to MaxTurns MedicalQa turns,  *)
(* over every store of open and booked slots.                              *)
(***************************************************************************)
InitPrefetch == InitReceived({MsgSlot, MsgHi, MsgRecap}, TurnSeqs, Stores)

NextPrefetch == \E s \in Sessions : ProcessStep(s)

SpecPrefetch == InitPrefetch /\ [][NextPrefetch]_vars

\* the assistant entries of a buffer: the dicts the loop appended and the
\* ai messages the agent returned
AssistantIdx(history) ==
  {i \in 1..Len(history) : history[i].role \in {"assistant", "ai"}}

\* the roster names that occur, whatever the case, in entry i of the buffer
NamesIn(history, i) ==
  {d \in {get_all_doctor_names[k] : k \in 1..Len(get_all_doctor_names)} :
     IsSubstr(Lower(d), Lower(ContentText(history[i].content)))}

\* the elements of a sequence
Elems(seq) == {seq[i] : i \in 1..Len(seq)}

\* C15: extract_mentioned_doctors_from_history returns exactly the roster
\* names that occur, case-insensitively, in the most recent assistant entry
\* of the general buffer, and nothing when the buffer has no assistant
\* entry; the entry it reads is a dict the loop appended, so the scan never
\* meets a message object. Names that occur only in earlier assistant
\* entries or in user entries are not returned.
C15_ExtractsFromLastAssistantEntry ==
  \A s \in Sessions :
    LET history == chat_history[s]
        found == Elems(extract_mentioned_doctors_from_history(history))
    IN  IF AssistantIdx(history) = {}
        THEN found = {}
        ELSE LET last == CHOOSE i \in AssistantIdx(history) :
                           \A j \in AssistantIdx(history) : j <= i
             IN  /\ ~history[last].obj
                 /\ \A j \in (last + 1)..Len(history) : ~history[j].obj
                 /\ found = NamesIn(history, last)

\* the prefetch ran on a buffer whose last assistant entry names Dr. Ricci
\* in capitals, while an earlier assistant entry names Dr. Fontana too and
\* the user entries hold the whole roster
C15_Witness ==
  \E s \in Sessions :
    /\ pc[s] = "invoke_sql"
    /\ extract_mentioned_doctors_from_history(chat_history[s]) = <<DrRicci>>
    /\ \E i \in AssistantIdx(chat_history[s]) :
         DrFontana \in NamesIn(chat_history[s], i)
    /\ \E i \in 1..Len(chat_history[s]) :
         /\ chat_history[s][i].role \in {"user", "human"}
         /\ NamesIn(chat_history[s], i) = {DrFontana, DrRicci}

\* the lines of a text that ends each line with a newline
LinesOf(text) ==
  LET nl == {i \in 1..Len(text) : text[i] = "\n"}
      end(k) == CHOOSE i \in nl : Cardinality({j \in nl : j < i}) = k - 1
      start(k) == IF k = 1 THEN 1 ELSE end(k - 1) + 1
  IN  [k \in 1..Cardinality(nl) |-> SubSeq(text, start(k), end(k) - 1)]

\* the slots nobody has booked, and those of them that belong to the doctors
OpenSlots(apps) == {id \in DOMAIN apps : apps[id].patient.null}

OpenSlotsOf(apps, names) ==
  {id \in OpenSlots(apps) : \E k \in 1..Len(names) : apps[id].doctor = names[k]}

\* the line '- Slot ID {id}: {doctor} ({specialization}) - {time}' of a slot
ClaimedSlotLine(apps, id) ==
  <<"-", " ", "S", "l", "o", "t", " ", "I", "D", " ">> \o Str(id) \o <<":", " ">>
    \o apps[id].doctor \o <<" ", "(">> \o SpecializationOf(apps[id].doctor)
    \o <<")", " ", "-", " ">> \o apps[id].time_slot

\* the snippet the prefetch of session s put in front of the message
PrefetchedInfo(s) == Last(sql_chat_history[s]).content.slots_info

\* the lines of a snippet after its header list exactly the given slots,
\* each once
ListsExactly(info, apps, ids) ==
  /\ Len(LinesOf(info)) = 1 + Cardinality(ids)
  /\ {LinesOf(info)[k] : k \in 2..Len(LinesOf(info))}
       = {ClaimedSlotLine(apps, id) : id \in ids}

\* C16: the fallback of the prefetch. When the last assistant entry mentions
\* doctors and none of them has an open slot, the snippet starts with 'No
\* slots available for <doctors>. Here are ALL available slots:' and lists
\* every open slot of every doctor, one line each, and no booked slot; when
\* the store has no open slot at all the snippet is 'No appointment slots
\* available at the moment.'.
C16_PrefetchFallback ==
  \A s \in Sessions :
    pc[s] = "invoke_sql" =>
      LET mentioned == extract_mentioned_doctors_from_history(chat_history[s])
      IN  /\ (/\ mentioned # <<>>
              /\ OpenSlotsOf(appointments, mentioned) = {}
              /\ OpenSlots(appointments) # {}) =>
                /\ LinesOf(PrefetchedInfo(s))[1] \o <<"\n">> =
                     HdrNoSlotsFor \o Join(mentioned, <<",", " ">>) \o HdrHereAll
                /\ ListsExactly(PrefetchedInfo(s), appointments, OpenSlots(appointments))
          /\ OpenSlots(appointments) = {} => PrefetchedInfo(s) = NoSlotsAtAll

\* the prefetch fell back to all open slots: Dr. Ricci is mentioned and has
\* no open slot, while a slot of another doctor is open and one is booked
C16_Witness ==
  \E s \in Sessions :
    /\ pc[s] = "invoke_sql"
    /\ extract_mentioned_doctors_from_history(chat_history[s]) = <<DrRicci>>
    /\ OpenSlotsOf(appointments, <<DrRicci>>) = {}
    /\ OpenSlots(appointments) # {}
    /\ IsPrefix(HdrNoSlotsFor, PrefetchedInfo(s))

\* C17: the filtered result of the prefetch. When a doctor mentioned in the
\* last assistant entry has an open slot, the snippet has the header
\* 'AVAILABLE SLOTS FOR <mentioned doctors>:' and its slot lines are exactly
\* the open slots of the mentioned doctors: each is listed once as
\* '- Slot ID {id}: {doctor} ({specialization}) - {time}', and no slot of
\* another doctor and no booked slot is listed.
C17_PrefetchFiltered ==
  \A s \in Sessions :
    pc[s] = "invoke_sql" =>
      LET mentioned == extract_mentioned_doctors_from_history(chat_history[s])
      IN  OpenSlotsOf(appointments, mentioned) # {} =>
            /\ LinesOf(PrefetchedInfo(s))[1] =
                 HdrFor \o Join(mentioned, <<",", " ">>) \o <<":">>
            /\ ListsExactly(PrefetchedInfo(s), appointments,
                            OpenSlotsOf(appointments, mentioned))

\* the prefetch listed the one open slot of Dr. Ricci, named in capitals by
\* the assistant, while Dr. Ricci has a booked slot and Dr. Fontana an open one
C17_Witness ==
  \E s \in Sessions :
    /\ pc[s] = "invoke_sql"
    /\ extract_mentioned_doctors_from_history(chat_history[s]) = <<DrRicci>>
    /\ OpenSlotsOf(appointments, <<DrRicci>>) = {1}
    /\ 0 \in OpenSlots(appointments)
    /\ LinesOf(PrefetchedInfo(s))[2] = ClaimedSlotLine(appointments, 1)

\* the text of a MedicalQa user entry without and with a knowledge-base block
AugmentedPlain(message) ==
  message \o DoctorsBlockHdr \o get_all_doctors_list \o <<"\n", "\n">> \o Instructions

AugmentedWithKb(message, retrieved) ==
  message \o DoctorsBlockHdr \o get_all_doctors_list \o <<"\n", "\n">>
    \o KbBlockHdr \o retrieved \o <<"\n", "\n">> \o Instructions

InitTwo ==
  /\ pc = [s \in Sessions |-> "save_user"]
  /\ \E p \in {NULL, Val(NameDoe)} :
       /\ username_param = [s \in Sessions |-> IF s = 1 THEN Val(NameDoe) ELSE p]
       /\ current_ws_user_name =
            [s \in Sessions |-> IF s = 1 \/ ~p.null THEN NameDoe ELSE USER_NAME]
       /\ sql_agent = [s \in Sessions |-> s = 1 \/ ~p.null]
       /\ agent = [s \in Sessions |-> s = 1 \/ ~p.null]
  /\ chat_history = [s \in Sessions |-> <<>>]
  /\ sql_chat_history = [s \in Sessions |-> <<>>]
  /\ msg \in [Sessions -> {MsgSlot, MsgHi, MsgRecap}]
  /\ response = [s \in Sessions |-> Unbound]
  /\ exc = [s \in Sessions |-> <<>>]
  /\ ws_open = [s \in Sessions |-> TRUE]
  /\ active_connections = Sessions
  /\ outbox = [s \in Sessions |-> <<Sent(Greeting, 0)>>]
  /\ nrecv = [s \in Sessions |-> 1]
  /\ invoked = [s \in Sessions |-> <<>>]
  /\ msg_limit = [s \in Sessions |-> 1]
  /\ files = [f \in FileKeys |-> [exists |-> TRUE, content |-> <<>>]]
  /\ appointments = InitAppointments
  /\ doc_retriever \in BOOLEAN
  /\ nlab = 0
  /\ booking = <<>>
  /\ written = <<>>
  /\ HttpInit

NextTwo == \E s \in Sessions : ProcessStep(s)

SpecTwo == InitTwo /\ [][NextTwo]_vars

\* C19: session isolation. Under every interleaving of two session loops,
\* of the same user or of different users, a step of one session changes
\* neither the general buffer nor the sql buffer of the other session: a
\* session's buffers change only in steps of its own loop.
C19_SessionIsolation ==
  [][\A s \in Sessions :
       /\ \A t \in Sessions \ {s} :
            pc'[t] # pc[t] =>
              /\ chat_history'[s] = chat_history[s]
              /\ sql_chat_history'[s] = sql_chat_history[s]
       /\ (\/ chat_history'[s] # chat_history[s]
           \/ sql_chat_history'[s] # sql_chat_history[s]) => pc'[s] # pc[s]]_vars

\* one session has its answer while the other, interleaved with it, is
\* between its own append and its own agent call
C19_Witness ==
  \E s \in Sessions : \E t \in Sessions \ {s} :
    /\ pc[s] = "save_bot" /\ invoked[s] = <<"medical">>
    /\ pc[t] = "invoke_llm"
    /\ Len(chat_history[t]) = 1
    /\ Len(chat_history[s]) > 1

\* a step of session s keeps the order of the loop: a message is received
\* only when every earlier message has its reply sent and its user record
\* (and, of a reply that is not a Bot Error, its bot record) written, and a
\* reply is sent only as the one reply of the message received last
RepliesInOrder(s) ==
  /\ nrecv'[s] # nrecv[s] =>
       /\ Len(outbox[s]) = nrecv[s] + 1
       /\ nrecv[s] > 0 =>
            IsSuffix(TranscriptLine(RoleUser, msg[s])
                       \o (IF IsBotError(Last(outbox[s]).text) THEN <<>>
                           ELSE TranscriptLine(RoleBot, Last(outbox[s]).text)),
                     Transcript(s))
  /\ (outbox'[s] # outbox[s] /\ outbox[s] # <<>>) =>
       /\ outbox'[s] = Append(outbox[s], Last(outbox'[s]))
       /\ Len(outbox'[s]) = nrecv[s] + 1
       /\ pc'[s] = "receive"

\* the reply a step of session s sends was made for the message received last
ReplyAnswersLastMessage(s) ==
  (outbox'[s] # outbox[s] /\ outbox[s] # <<>>) =>
    Last(outbox'[s]).for = nrecv[s]

\* C20: in-order processing within a session. The k-th message sent after
\* the greeting answers the k-th inbound message, and it is sent, and the
\* records of the exchange written, before message k+1 is received: no
\* reordering and no batching.
C20_InOrderProcessing ==
  [][\A s \in Sessions : RepliesInOrder(s) /\ ReplyAnswersLastMessage(s)]_vars

\* the buffer is a list of message objects an agent returned followed by one
\* assistant entry the loop appended, whose content is text
ReturnedListThenAssistant(history, text) ==
  /\ Len(history) >= 2
  /\ \A i \in 1..(Len(history) - 1) : history[i].obj
  /\ Last(history) = Entry("assistant", Plain(text))
  /\ ContentText(history[Len(history) - 1].content) = text

\* the agent call of a step replaced the buffer by the list it returned (the
\* buffer it was given, as message objects, and what the agent added) and
\* the loop appended the answer as one assistant entry
ReplacedByAgentResult(before, after, text) ==
  \E calls \in 0..MaxToolCalls :
    after = Append(AgentResult(before, calls, text), Entry("assistant", Plain(text)))

KeptNewest(before, entry, after) ==
  LET full == Append(before, entry)
      dropped == IF Len(full) > CHAT_BUFFER THEN Len(full) - CHAT_BUFFER ELSE 0
  IN  /\ Len(after) = Len(full) - dropped
      /\ \A i \in 1..Len(after) : after[i] = full[dropped + i]

\* C26: FIFO truncation. When the user entry appended before an agent call
\* makes the buffer longer than CHAT_BUFFER, the buffer the agent is called
\* with holds exactly the last CHAT_BUFFER entries in their order: the
\* oldest ones are dropped, never a middle or the newest entry; a buffer of
\* at most CHAT_BUFFER entries is left as it is.
C26_FifoTruncation ==
  [][\A s \in Sessions :
       /\ (pc[s] = "dispatch" /\ pc'[s] = "invoke_sql") =>
            /\ Last(sql_chat_history'[s]).role = "user"
            /\ Last(sql_chat_history'[s]).content.text = msg[s]
            /\ KeptNewest(sql_chat_history[s], Last(sql_chat_history'[s]),
                          sql_chat_history'[s])
       /\ (pc[s] = "dispatch" /\ pc'[s] = "invoke_llm") =>
            /\ Last(chat_history'[s]).role = "user"
            /\ Last(chat_history'[s]).content.text = msg[s]
            /\ KeptNewest(chat_history[s], Last(chat_history'[s]),
                          chat_history'[s])]_vars

\* the general buffer held more than CHAT_BUFFER entries after the append
\* and the agent is about to be called with the newest CHAT_BUFFER of them
C26_Witness ==
  \E s \in Sessions :
    /\ pc[s] = "invoke_llm"
    /\ nrecv[s] = 2
    /\ Len(chat_history[s]) = CHAT_BUFFER
    /\ chat_history[s][1].role = "assistant"
    /\ Last(chat_history[s]).role = "user"

MaxHttp == 2

GeneralConsultation == <<"G", "e", "n", "e", "r", "a", "l">>

\* what generate_patient_problem_summary returns for a patient
Problems == {GeneralConsultation, Headaches}

\* the names book and cancel requests carry in their body
StorePatients == {MarioRossi, Rossi}

\* the users whose session cookie a request of this part carries
Callers == 1..Len(InitUsers)

\* a request the server has received; body is the patient key of the JSON
\* body, seen the patient column the handler read
Req(op, id, user_id, body, at, status) ==
  [op |-> op, id |-> id, user_id |-> user_id, body |-> body, at |-> at,
   status |-> status, seen |-> NULL]

Answer(i, status) == [http EXCEPT ![i] = [@ EXCEPT !.at = "done", !.status = status]]

InFlight == Len(booking) + Len(http)

\* login_required passed: g.current_user is the row of user_id
PostCancelSlot(slot_id, user_id, body) ==
  /\ InFlight < MaxHttp
  /\ http' = Append(http, Req("cancel", slot_id, user_id, body, "select", 0))
  /\ UNCHANGED <<sessionVars, msg_limit, files, appointments, doc_retriever,
                 nlab, booking, written, users, session, documents, uploads>>

\* patient = data.get('patient', current_user_name)
CancelPatient(r) == IF r.body.null THEN users[r.user_id].full_name ELSE r.body.v

\* SELECT id, patient, doctor, time_slot FROM appointments WHERE id = ?  and
\* the three early returns
CancelSelect(i) ==
  /\ http[i].op = "cancel" /\ http[i].at = "select"
  /\ http' =
       IF http[i].id \notin DOMAIN appointments THEN Answer(i, 404)
       ELSE IF appointments[http[i].id].patient.null THEN Answer(i, 400)
       ELSE IF Lower(appointments[http[i].id].patient.v) # Lower(CancelPatient(http[i]))
            THEN Answer(i, 403)
            ELSE [http EXCEPT ![i] = [@ EXCEPT !.at = "update",
                                       !.seen = appointments[http[i].id].patient]]
  /\ UNCHANGED <<sessionVars, msg_limit, files, appointments, doc_retriever,
                 nlab, booking, written, users, session, documents, uploads>>

\* UPDATE appointments SET patient = NULL WHERE id = ?, commit, the 200 reply
CancelUpdate(i) ==
  /\ http[i].op = "cancel" /\ http[i].at = "update"
  /\ appointments' = [appointments EXCEPT ![http[i].id].patient = NULL]
  /\ http' = Answer(i, 200)
  /\ UNCHANGED <<sessionVars, msg_limit, files, doc_retriever, nlab, booking,
                 written, users, session, documents, uploads>>

\* SELECT name, specialization FROM doctors WHERE user_id = ?
get_doctor_for_user(user_id) ==
  IF \E d \in 1..Len(doctors) : doctors[d].user_id = user_id
  THEN Val(doctors[CHOOSE d \in 1..Len(doctors) : doctors[d].user_id = user_id].name)
  ELSE NULL

\* login_required passed; doctor_required answers 403 to a role other than
\* doctor and admin, the handler 404 to a user without a doctor profile
PostGenerateProblem(appointment_id, user_id) ==
  /\ InFlight < MaxHttp
  /\ http' = Append(http,
       IF users[user_id].role \notin {"doctor", "admin"}
       THEN Req("generate", appointment_id, user_id, NULL, "done", 403)
       ELSE IF get_doctor_for_user(user_id).null
            THEN Req("generate", appointment_id, user_id, NULL, "done", 404)
            ELSE Req("generate", appointment_id, user_id, NULL, "select", 0))
  /\ UNCHANGED <<sessionVars, msg_limit, files, appointments, doc_retriever,
                 nlab, booking, written, users, session, documents, uploads>>

\* SELECT id, patient, doctor FROM appointments WHERE id = ?  and the three
\* early returns
GenerateSelect(i) ==
  /\ http[i].op = "generate" /\ http[i].at = "select"
  /\ http' =
       IF http[i].id \notin DOMAIN appointments THEN Answer(i, 404)
       ELSE IF appointments[http[i].id].doctor # get_doctor_for_user(http[i].user_id).v
            THEN Answer(i, 403)
            ELSE IF appointments[http[i].id].patient.null THEN Answer(i, 400)
                 ELSE [http EXCEPT ![i] = [@ EXCEPT !.at = "update",
                                            !.seen = appointments[http[i].id].patient]]
  /\ UNCHANGED <<sessionVars, msg_limit, files, appointments, doc_retriever,
                 nlab, booking, written, users, session, documents, uploads>>

\* the try block: generate_patient_problem_summary for the patient read, then
\* UPDATE appointments SET patient_problem = ? WHERE id = ? and commit; an
\* exception of either is answered 500
GenerateUpdate(i) ==
  /\ http[i].op = "generate" /\ http[i].at = "update"
  /\ \/ \E patient_problem \in Problems :
          /\ appointments' = [appointments EXCEPT
                                ![http[i].id].patient_problem = Val(patient_problem)]
          /\ http' = Answer(i, 200)
     \/ /\ http' = Answer(i, 500)
        /\ UNCHANGED appointments
  /\ UNCHANGED <<sessionVars, msg_limit, files, doc_retriever, nlab, booking,
                 written, users, session, documents, uploads>>

\* a booking request of this part
PostBookSlotStore(slot_id, patient) ==
  /\ InFlight < MaxHttp
  /\ PostBookSlot(slot_id, patient)

NextStore ==
  \/ \E slot_id \in SlotIds \cup {MissingSlot}, patient \in StorePatients :
       PostBookSlotStore(slot_id, patient)
  \/ \E i \in DOMAIN booking : BookSelect(i)
  \/ \E i \in DOMAIN booking : BookUpdate(i)
  \/ \E slot_id \in SlotIds \cup {MissingSlot}, user_id \in {1, 2},
        body \in {NULL} \cup {Val(p) : p \in StorePatients} :
       PostCancelSlot(slot_id, user_id, body)
  \/ \E i \in DOMAIN http : CancelSelect(i)
  \/ \E i \in DOMAIN http : CancelUpdate(i)
  \/ \E id \in SlotIds \cup {MissingSlot}, user_id \in Callers :
       PostGenerateProblem(id, user_id)
  \/ \E i \in DOMAIN http : GenerateSelect(i)
  \/ \E i \in DOMAIN http : GenerateUpdate(i)

SpecStore == InitBook /\ [][NextStore]_vars

\* request i is answered in this step
Answered(i) == i \in DOMAIN http /\ http[i].at # "done" /\ http'[i].at = "done"

\* C21: cancellation authorization. A cancel request that is answered 200
\* set to NULL the patient of a slot that was, when the row was updated,
\* booked by the authenticated user who made the request, whatever the
\* body carried; a request answered 403, 400 or 404 left the rows unchanged.
C21_CancelOnlyOwnReservation ==
  [][\A i \in DOMAIN http :
       (http[i].op = "cancel" /\ Answered(i)) =>
         IF http'[i].status = 200
         THEN /\ ~appointments[http[i].id].patient.null
              /\ Lower(appointments[http[i].id].patient.v)
                   = Lower(users[http[i].user_id].full_name)
         ELSE /\ http'[i].status \in {403, 400, 404}
              /\ appointments' = appointments]_vars

\* C23: problem-summary authorization. A step that changes a patient_problem
\* is the UPDATE of a generate-problem request whose caller is the doctor of
\* that appointment, and the appointment has a patient when it is written;
\* a request answered 404, 403, 400 or 500 leaves every row unchanged.
C23_ProblemWrittenForAssignedDoctorAndPatient ==
  [][\A i \in DOMAIN http :
       (http[i].op = "generate" /\ Answered(i)) =>
         IF http'[i].status = 200
         THEN /\ appointments[http[i].id].doctor
                   = get_doctor_for_user(http[i].user_id).v
              /\ ~appointments[http[i].id].patient.null
         ELSE /\ http'[i].status \in {404, 403, 400, 500}
              /\ appointments' = appointments]_vars

\* C28: an appointment slot with no patient has no patient_problem.
C28_AvailableSlotHasNoProblem ==
  \A id \in DOMAIN appointments :
    appointments[id].patient.null => appointments[id].patient_problem.null

(***************************************************************************)
(* The legacy endpoints GET /res, POST /setReservation and                 *)
(* POST /cancelReservation.                                                *)
(***************************************************************************)
\* a slot id a request carries, or none
NoId == [null |-> TRUE, v |-> 0]
Id(n) == [null |-> FALSE, v |-> n]

\* Python's truth value of an optional int: None and 0 are false
Falsy(x) == x.null \/ x.v = 0

\* a or b
Or(a, b) == IF Falsy(a) THEN b ELSE a

CarriedIds == {NoId} \cup {Id(n) : n \in SlotIds \cup {MissingSlot}}

\* a request the server has received: the slot_id of the JSON body and the
\* one of the query string
LegacyReq(op, body_id, args_id) ==
  [op |-> op, body_id |-> body_id, args_id |-> args_id, at |-> "start",
   status |-> 0, reply |-> "", slot_id |-> 0]

LegacyAnswer(i, status, reply) ==
  [http EXCEPT ![i] = [@ EXCEPT !.at = "done", !.status = status, !.reply = reply]]

PostLegacy(op, body_id, args_id) ==
  /\ InFlight < MaxHttp
  /\ http' = Append(http, LegacyReq(op, body_id, args_id))
  /\ UNCHANGED <<sessionVars, msg_limit, files, appointments, doc_retriever,
                 nlab, booking, written, users, session, documents, uploads>>

\* SELECT doctor, time_slot, patient FROM appointments WHERE id=?
retrieve_appointment(slot_id) ==
  IF slot_id \in DOMAIN appointments
  THEN [found |-> TRUE, patient |-> appointments[slot_id].patient]
  ELSE [found |-> FALSE, patient |-> NULL]

\* UPDATE appointments SET patient=? WHERE id=?
set_appointment(patient, slot_id) ==
  appointments' = [appointments EXCEPT ![slot_id].patient = patient]

\* GET /res: slot_id = request.args.get("id", type=int)
get_reservation(i) ==
  /\ http[i].op = "res" /\ http[i].at = "start"
  /\ LET slot_id == http[i].args_id
         row == retrieve_appointment(slot_id.v)
     IN http' = IF Falsy(slot_id) THEN LegacyAnswer(i, 400, "Missing slot_id")
                ELSE IF ~row.found THEN LegacyAnswer(i, 404, "Not found")
                ELSE IF row.patient.null THEN LegacyAnswer(i, 200, "available")
                ELSE LegacyAnswer(i, 200, "reserved")
  /\ UNCHANGED <<sessionVars, msg_limit, files, appointments, doc_retriever,
                 nlab, booking, written, users, session, documents, uploads>>

\* reserve and cancel up to the lookup: slot_id = data.get("slot_id") or
\* request.args.get("slot_id", type=int), retrieve_appointment and the
\* early returns
LegacyLookup(i) ==
  /\ http[i].op \in {"setReservation", "cancelReservation"} /\ http[i].at = "start"
  /\ LET slot_id == Or(http[i].body_id, http[i].args_id)
         row == retrieve_appointment(slot_id.v)
     IN http' =
          IF Falsy(slot_id) THEN LegacyAnswer(i, 400, "Missing slot_id")
          ELSE IF ~row.found THEN LegacyAnswer(i, 404, "Unable to process request")
          ELSE IF ~row.patient.null /\ Lower(row.patient.v) # Lower(USER_NAME)
               THEN LegacyAnswer(i, 403, "Unable to process request")
               ELSE IF http[i].op = "setReservation" /\ ~row.patient.null
                    THEN LegacyAnswer(i, 200, "Reservation successful")
                    ELSE [http EXCEPT ![i] = [@ EXCEPT !.at = "set", !.slot_id = slot_id.v]]
  /\ UNCHANGED <<sessionVars, msg_limit, files, appointments, doc_retriever,
                 nlab, booking, written, users, session, documents, uploads>>

\* reserve: set_appointment(USER_NAME, slot_id); cancel:
\* set_appointment(None, slot_id); the 200 reply
LegacySet(i) ==
  /\ http[i].op \in {"setReservation", "cancelReservation"} /\ http[i].at = "set"
  /\ IF http[i].op = "setReservation"
     THEN /\ set_appointment(Val(USER_NAME), http[i].slot_id)
          /\ http' = LegacyAnswer(i, 200, "Reservation successful")
     ELSE /\ set_appointment(NULL, http[i].slot_id)
          /\ http' = LegacyAnswer(i, 200, "Cancellation successful")
  /\ UNCHANGED <<sessionVars, msg_limit, files, doc_retriever, nlab, booking,
                 written, users, session, documents, uploads>>

NextLegacy ==
  \/ \E args_id \in CarriedIds : PostLegacy("res", NoId, args_id)
  \/ \E op \in {"setReservation", "cancelReservation"},
        body_id \in CarriedIds, args_id \in {NoId, Id(0), Id(1)} :
       PostLegacy(op, body_id, args_id)
  \/ \E i \in DOMAIN http : get_reservation(i)
  \/ \E i \in DOMAIN http : LegacyLookup(i)
  \/ \E i \in DOMAIN http : LegacySet(i)

SpecLegacy == InitBook /\ [][NextLegacy]_vars

\* C29: a legacy request is answered 'Missing slot_id' only when it carries
\* no slot id, neither in the body nor in the query string; a request that
\* carries the id of a row of appointments, 0 included, is answered 200 or
\* 403 after the lookup.
C29_MissingOnlyWithoutSlotId ==
  \A i \in DOMAIN http :
    http[i].at = "done" =>
      /\ http[i].reply = "Missing slot_id" =>
           (http[i].body_id.null /\ http[i].args_id.null)
      /\ (/\ http[i].body_id.null
          /\ ~http[i].args_id.null
          /\ http[i].args_id.v \in SlotIds) => http[i].status \in {200, 403}

(***************************************************************************)
(* register_user.  Each call runs on the thread of its request with a      *)
(* connection of its own: the two SELECTs and the INSERT are separate      *)
(* statements.  Columns username and email of table users are UNIQUE.      *)
(***************************************************************************)
Letters == {Upper[i] : i \in 1..Len(Upper)} \cup {LowerAZ[i] : i \in 1..Len(LowerAZ)}

\* the class [!@#$%^&*(),.?dquote:{}|<>] of validate_password_strength
Specials == {"!", "@", "#", "$", "%", "^", "&", "*", "(", ")", ",", ".", "?",
             "dquote", ":", "{", "}", "|", "<", ">"}

\* re.search of a one-character class
HasCharIn(s, class) == \E i \in 1..Len(s) : s[i] \in class

validate_password_strength(password) ==
  /\ Len(password) >= 8
  /\ HasCharIn(password, {Upper[i] : i \in 1..Len(Upper)})
  /\ HasCharIn(password, {LowerAZ[i] : i \in 1..Len(LowerAZ)})
  /\ HasCharIn(password, Digits)
  /\ HasCharIn(password, Specials)

AllIn(s, from, to, class) == \A i \in from..to : s[i] \in class

\* re.match of ^[a-zA-Z0-9._%+-]+@[a-zA-Z0-9.-]+\.[a-zA-Z]{2,}$ : at is the
\* position of the "@", dot the one of the last ".", end the last character
\* before the end or before a final line break
validate_email(email) ==
  \E at \in 1..Len(email), dot \in 1..Len(email), end \in 1..Len(email) :
    /\ end = Len(email) \/ (end = Len(email) - 1 /\ email[Len(email)] = "\n")
    /\ email[at] = "@" /\ email[dot] = "."
    /\ at >= 2 /\ dot >= at + 2 /\ end >= dot + 2
    /\ AllIn(email, 1, at - 1, Letters \cup Digits \cup {".", "_", "%", "+", "-"})
    /\ AllIn(email, at + 1, dot - 1, Letters \cup Digits \cup {".", "-"})
    /\ AllIn(email, dot + 1, end, Letters)

\* the arguments of a call
RegArgs(username, email, password, full_name, role) ==
  [username |-> username, email |-> email, password |-> password,
   full_name |-> full_name, role |-> role]

NameBob == <<"B", "o", "b">>
NameBobLower == <<"b", "o", "b">>
MailBob == <<"B", "@", "x", ".", "i", "o">>
MailBobOther == <<"b", "@", "X", ".", "I", "O">>
MailRossiUpper == <<"M", "a", "r", "i", "o", ".", "R", "o", "s", "s", "i", "@", "E", "m", "a", "i", "l", ".", "c", "o", "m">>
PwGood == <<"P", "a", "s", "s", "w", "0", "r", "d", "!">>
NameBo == <<"B", "o">>
NameGuest == <<"g", "u", "e", "s", "t">>

\* calls whose arguments pass every validation
ValidRegs ==
  {RegArgs(u, e, PwGood, NameBo, "patient") :
     u \in {NameBob, NameBobLower}, e \in {MailBob, MailBobOther}}
  \cup {RegArgs(NameBob, MailRossiUpper, PwGood, NameBo, "patient"),
        RegArgs(<<"R", "o", "s", "s", "i">>, MailBob, PwGood, NameBo, "patient"),
        RegArgs(<<"g", "u", "s">>, <<"g", "@", "x", ".", "i", "o">>, PwGood, NameGuest, "patient")}

\* calls that fail one validation each: username, email, password, full
\* name, role
InvalidRegs ==
  {RegArgs(<<"a", "b">>, MailBob, PwGood, NameBo, "patient"),
   RegArgs(NameBob, <<"b", "@", "x">>, PwGood, NameBo, "patient"),
   RegArgs(NameBob, MailBob, <<"p", "a", "s", "s", "w", "o", "r", "d">>, NameBo, "patient"),
   RegArgs(NameBob, MailBob, PwGood, <<"B">>, "patient"),
   RegArgs(NameBob, MailBob, PwGood, NameBo, "nurse")}

\* a call in progress and, once it has returned, its result (ok, reply)
RegCall(args, at, ok, reply) ==
  [op |-> "register", args |-> args, at |-> at, ok |-> ok, reply |-> reply]

Return(i, ok, reply) ==
  [http EXCEPT ![i] = [@ EXCEPT !.at = "done", !.ok = ok, !.reply = reply]]

\* the validations of lines 136-156 in their order
ValidationError(args) ==
  IF Len(args.username) < 3 THEN "Username must be at least 3 characters"
  ELSE IF ~validate_email(args.email) THEN "Invalid email format"
  ELSE IF ~validate_password_strength(args.password) THEN "Password must"
  ELSE IF Len(args.full_name) < 2 THEN "Full name is required"
  ELSE IF args.role \notin {"patient", "doctor", "admin"} THEN "Invalid role"
  ELSE ""

\* the call up to the connection: a failed validation returns (False, msg)
register_user(args) ==
  /\ InFlight < MaxHttp
  /\ http' = Append(http,
       IF ValidationError(args) # ""
       THEN RegCall(args, "done", FALSE, ValidationError(args))
       ELSE RegCall(args, "select_username", FALSE, ""))
  /\ UNCHANGED <<sessionVars, msg_limit, files, appointments, doc_retriever,
                 nlab, booking, written, users, session, documents, uploads>>

\* SELECT id FROM users WHERE LOWER(username) = LOWER(?)
RegisterSelectUsername(i) ==
  /\ http[i].op = "register" /\ http[i].at = "select_username"
  /\ http' =
       IF \E u \in DOMAIN users : Lower(users[u].username) = Lower(http[i].args.username)
       THEN Return(i, FALSE, "Username already exists")
       ELSE [http EXCEPT ![i] = [@ EXCEPT !.at = "select_email"]]
  /\ UNCHANGED <<sessionVars, msg_limit, files, appointments, doc_retriever,
                 nlab, booking, written, users, session, documents, uploads>>

\* SELECT id FROM users WHERE LOWER(email) = LOWER(?)
RegisterSelectEmail(i) ==
  /\ http[i].op = "register" /\ http[i].at = "select_email"
  /\ http' =
       IF \E u \in DOMAIN users : Lower(users[u].email) = Lower(http[i].args.email)
       THEN Return(i, FALSE, "Email already registered")
       ELSE [http EXCEPT ![i] = [@ EXCEPT !.at = "insert"]]
  /\ UNCHANGED <<sessionVars, msg_limit, files, appointments, doc_retriever,
                 nlab, booking, written, users, session, documents, uploads>>

\* the row the INSERT of lines 172-176 writes
NewUserRow(args) ==
  UserRow(Lower(args.username), Lower(args.email), args.password, args.role,
          args.full_name)

\* an INSERT on a table without UNIQUE columns
InsertUnchecked(i) ==
  /\ http[i].op = "register" /\ http[i].at = "insert"
  /\ users' = Append(users, NewUserRow(http[i].args))
  /\ http' = Return(i, TRUE, "")
  /\ UNCHANGED <<sessionVars, msg_limit, files, appointments, doc_retriever,
                 nlab, booking, written, session, documents, uploads>>

\* the INSERT and the commit; the UNIQUE constraint of username or of email
\* raises sqlite3.IntegrityError, which the except clause turns into
\* (False, "Database error: ...")
RegisterInsert(i) ==
  /\ http[i].op = "register" /\ http[i].at = "insert"
  /\ IF \E u \in DOMAIN users :
          \/ users[u].username = NewUserRow(http[i].args).username
          \/ users[u].email = NewUserRow(http[i].args).email
     THEN /\ http' = Return(i, FALSE, "Database error")
          /\ UNCHANGED users
     ELSE /\ users' = Append(users, NewUserRow(http[i].args))
          /\ http' = Return(i, TRUE, "")
  /\ UNCHANGED <<sessionVars, msg_limit, files, appointments, doc_retriever,
                 nlab, booking, written, session, documents, uploads>>

RegisterStep(i) ==
  \/ RegisterSelectUsername(i)
  \/ RegisterSelectEmail(i)
  \/ RegisterInsert(i)

NextRegister ==
  \/ \E args \in ValidRegs \cup InvalidRegs : register_user(args)
  \/ \E i \in DOMAIN http : RegisterStep(i)

SpecRegister == InitBook /\ [][NextRegister]_vars

\* no two rows of users have the same username or the same email, compared
\* case-insensitively
UniqueUsers ==
  \A u, v \in DOMAIN users :
    u # v => /\ Lower(users[u].username) # Lower(users[v].username)
             /\ Lower(users[u].email) # Lower(users[v].email)

\* C27: registration uniqueness. Under every interleaving of register_user
\* calls the rows of users stay unique in username and in email, compared
\* case-insensitively; a call that returns (False, error) added no row, a
\* call that returns True added its one row, and a call with an invalid
\* username, email, password, full name or role returns False.
C27_RegistrationUniqueness ==
  /\ []UniqueUsers
  /\ [][\A i \in DOMAIN http :
          (http[i].op = "register" /\ http[i].at # "done" /\ http'[i].at = "done") =>
            IF http'[i].ok
            THEN users' = Append(users, NewUserRow(http[i].args))
            ELSE users' = users]_vars
  /\ [](\A i \in DOMAIN http :
          (http[i].args \in InvalidRegs /\ http[i].at = "done") =>
            (~http[i].ok /\ http[i].reply # ""))

\* two concurrent calls for the same username passed both SELECTs; one
\* added its row and the other was stopped by the UNIQUE constraint
C27_Witness ==
  /\ Len(http) = 2
  /\ http[1].at = "done" /\ http[2].at = "done"
  /\ http[1].ok /\ ~http[2].ok
  /\ http[2].reply = "Database error"
  /\ Lower(http[1].args.username) = Lower(http[2].args.username)
  /\ http[1].args.username # http[2].args.username
  /\ Len(users) = Len(InitUsers) + 1

(***************************************************************************)
(* login_user, logout_user and the login_required decorator, for the       *)
(* requests of one browser: session is what its signed cookie holds.       *)
(***************************************************************************)
MaxAuthOps == 4

MailDoe == <<"j", "o", "h", "n", ".", "d", "o", "e", "@", "e", "m", "a", "i", "l", ".", "c", "o", "m">>

\* what a login request gives as username: a username in another case, an
\* email, a name no row has
LoginNames == {Rossi, MailDoe, NameBob}

LoginPasswords == {PwPatient, PwGood}

\* SELECT ... FROM users WHERE LOWER(username) = LOWER(?) OR LOWER(email) =
\* LOWER(?), fetchone: the id of the first such row, 0 if there is none
FindUser(username_or_email) ==
  LET found == {u \in DOMAIN users :
                  \/ Lower(users[u].username) = Lower(username_or_email)
                  \/ Lower(users[u].email) = Lower(username_or_email)}
  IN IF found = {} THEN 0 ELSE CHOOSE u \in found : \A v \in found : u <= v

\* an entry of the record of what the browser did and was answered
Did(op, ok, status, user_id) ==
  [op |-> op, ok |-> ok, status |-> status, user_id |-> user_id]

\* login_user: an unknown name or a wrong password returns False and leaves
\* the session alone; otherwise session['user_id'] = user_id
login_user(username_or_email, password) ==
  /\ Len(http) < MaxAuthOps
  /\ LET user_id == FindUser(username_or_email)
     IN IF user_id = 0 \/ ~verify_password(password, users[user_id].password_hash)
        THEN /\ http' = Append(http, Did("login", FALSE, 401, 0))
             /\ UNCHANGED session
        ELSE /\ http' = Append(http, Did("login", TRUE, 200, user_id))
             /\ session' = [has_user_id |-> TRUE, user_id |-> user_id]
  /\ UNCHANGED <<sessionVars, msg_limit, files, appointments, doc_retriever,
                 nlab, booking, written, users, documents, uploads>>

\* a logout that leaves the session as it is
LogoutKeepsSession ==
  /\ Len(http) < MaxAuthOps
  /\ http' = Append(http, Did("logout", TRUE, 200, 0))
  /\ UNCHANGED <<sessionVars, msg_limit, files, appointments, doc_retriever,
                 nlab, booking, written, users, session, documents, uploads>>

\* logout_user: session.clear()
logout_user ==
  /\ Len(http) < MaxAuthOps
  /\ http' = Append(http, Did("logout", TRUE, 200, 0))
  /\ session' = NoSession
  /\ UNCHANGED <<sessionVars, msg_limit, files, appointments, doc_retriever,
                 nlab, booking, written, users, documents, uploads>>

\* SELECT id, username, email, role, full_name FROM users WHERE id = ?  : the
\* id of the row, 0 for None
get_user_by_id(user_id) == IF user_id \in DOMAIN users THEN user_id ELSE 0

\* user_id = session.get('user_id'); if not user_id: return None
get_current_user ==
  IF ~session.has_user_id \/ session.user_id = 0 THEN 0
  ELSE get_user_by_id(session.user_id)

\* a request to a handler wrapped in login_required: 401 without running the
\* handler when get_current_user gives None, else the handler runs with
\* g.current_user
login_required ==
  /\ Len(http) < MaxAuthOps
  /\ http' = Append(http,
       IF get_current_user = 0 THEN Did("request", FALSE, 401, 0)
       ELSE Did("request", TRUE, 200, get_current_user))
  /\ UNCHANGED <<sessionVars, msg_limit, files, appointments, doc_retriever,
                 nlab, booking, written, users, session, documents, uploads>>

NextAuth ==
  \/ \E username_or_email \in LoginNames, password \in LoginPasswords :
       login_user(username_or_email, password)
  \/ logout_user
  \/ login_required

SpecAuth == InitBook /\ [][NextAuth]_vars

\* the entry the step adds to the record
Added == http'[Len(http')]

\* the handler of request i ran after a successful login with no logout
\* between the two
LoggedInAt(i) ==
  \E j \in 1..(i - 1) :
    /\ http[j].op = "login" /\ http[j].ok
    /\ \A k \in (j + 1)..(i - 1) : http[k].op # "logout"

\* C24: login protection. The handler of a login_required request runs only
\* when the session holds the id of a row of users, and the request is
\* answered 401 otherwise; a failed login leaves the session unchanged; a
\* logout empties it, so that no handler runs between a logout and the next
\* successful login.
C24_LoginProtection ==
  /\ [][Len(http') = Len(http) + 1 =>
          /\ Added.op = "request" =>
               /\ Added.ok <=> (session.has_user_id /\ session.user_id \in DOMAIN users)
               /\ Added.ok => (Added.status = 200 /\ Added.user_id = session.user_id)
               /\ ~Added.ok => Added.status = 401
          /\ (Added.op = "login" /\ ~Added.ok) => session' = session
          /\ (Added.op = "login" /\ Added.ok) =>
               session' = [has_user_id |-> TRUE, user_id |-> Added.user_id]]_vars
  /\ [](\A i \in DOMAIN http : (http[i].op = "request" /\ http[i].ok) => LoggedInAt(i))

\* a login, a logout, a failed login and then a request that got 401
C24_Witness ==
  /\ Len(http) = 4
  /\ http[1] = Did("login", TRUE, 200, 1)
  /\ http[2].op = "logout"
  /\ http[3] = Did("login", FALSE, 401, 0)
  /\ http[4] = Did("request", FALSE, 401, 0)
  /\ session = NoSession

(***************************************************************************)
(* POST /api/upload-document and DELETE /api/document/<id>.  The delete    *)
(* route has no login_required: its caller may have no session at all.     *)
(***************************************************************************)
MaxDocs == 2

\* the callers of the delete route: 0 is a request without session
DeleteCallers == {0} \cup (1..(Len(InitUsers) + 1))

\* upload_document for the authenticated user user_id: the file is saved
\* under a name made of the lower-cased full name and the time, and a row
\* (patient_id, patient_surname, document_path) is inserted; a row's id is
\* its position, and a deleted row keeps its id
upload_document(user_id) ==
  /\ Len(documents) < MaxDocs
  /\ LET current_user_name == users[user_id].full_name
         file_path == [owner |-> Lower(current_user_name), at |-> Len(documents) + 1]
     IN /\ uploads' = uploads \cup {file_path}
        /\ documents' = Append(documents,
             [deleted |-> FALSE, patient_id |-> Lower(current_user_name),
              patient_surname |-> current_user_name, document_path |-> file_path])
  /\ UNCHANGED <<sessionVars, msg_limit, files, appointments, doc_retriever,
                 nlab, booking, written, users, session, http>>

PostDeleteDocument(doc_id, user_id) ==
  /\ InFlight < MaxHttp
  /\ http' = Append(http, Req("delete", doc_id, user_id, NULL, "select", 0))
  /\ UNCHANGED <<sessionVars, msg_limit, files, appointments, doc_retriever,
                 nlab, booking, written, users, session, documents, uploads>>

\* SELECT document_path, patient_id FROM documents WHERE id = ?  and the two
\* early returns: the owner is compared with the module's USER_NAME
DeleteSelect(i) ==
  /\ http[i].op = "delete" /\ http[i].at = "select"
  /\ http' =
       IF http[i].id \notin DOMAIN documents \/ documents[http[i].id].deleted
       THEN Answer(i, 404)
       ELSE IF Lower(documents[http[i].id].patient_id) # Lower(USER_NAME)
            THEN Answer(i, 403)
            ELSE [http EXCEPT ![i] = [@ EXCEPT !.at = "remove"]]
  /\ UNCHANGED <<sessionVars, msg_limit, files, appointments, doc_retriever,
                 nlab, booking, written, users, session, documents, uploads>>

\* os.remove of the path read if it exists, DELETE FROM documents WHERE
\* id = ?, commit, the 200 reply (no statement updates a row, so the path
\* read by the SELECT is the path of the row)
DeleteRemove(i) ==
  /\ http[i].op = "delete" /\ http[i].at = "remove"
  /\ uploads' = uploads \ {documents[http[i].id].document_path}
  /\ documents' = [documents EXCEPT ![http[i].id].deleted = TRUE]
  /\ http' = Answer(i, 200)
  /\ UNCHANGED <<sessionVars, msg_limit, files, appointments, doc_retriever,
                 nlab, booking, written, users, session>>

NextDocs ==
  \/ \E args \in {a \in ValidRegs : a.full_name = NameGuest} : register_user(args)
  \/ \E i \in DOMAIN http : RegisterStep(i)
  \/ \E user_id \in DOMAIN users : upload_document(user_id)
  \/ \E doc_id \in 1..(MaxDocs + 1), user_id \in DeleteCallers :
       PostDeleteDocument(doc_id, user_id)
  \/ \E i \in DOMAIN http : DeleteSelect(i)
  \/ \E i \in DOMAIN http : DeleteRemove(i)

SpecDocs == InitBook /\ [][NextDocs]_vars

\* the caller of request i is an authenticated user whose name is, but for
\* the case, the patient_id of document doc_id
OwnedByCaller(i, doc_id) ==
  /\ http[i].user_id \in DOMAIN users
  /\ Lower(users[http[i].user_id].full_name) = Lower(documents[doc_id].patient_id)

\* C22: document deletion ownership. A step that removes a document row or
\* its file is the deletion of a request whose caller is the authenticated
\* owner of the document; the requests of every other caller, one without
\* session included, leave rows and files unchanged.
C22_DeleteOnlyByOwner ==
  [][\A doc_id \in DOMAIN documents :
       (\/ documents'[doc_id].deleted # documents[doc_id].deleted
        \/ (documents[doc_id].document_path \in uploads
              /\ documents[doc_id].document_path \notin uploads')) =>
         \E i \in DOMAIN http :
           /\ http[i].op = "delete" /\ http[i].id = doc_id
           /\ Answered(i) /\ http'[i].status = 200
           /\ OwnedByCaller(i, doc_id)]_vars

=============================================================================
